---------------------------- MODULE Spec2Model ----------------------------
(***************************************************************************)
(* Model of the launcher's calculator (renderer/lib/calculator):           *)
(* tokenize, the recursive-descent parser working on the module-scope      *)
(* cursor `pos` and token list `tokens`, callMathFunc and                  *)
(* evaluateMathExpression.                                                 *)
(*                                                                         *)
(* Strings are sequences of one-character strings.  A JavaScript number is *)
(* a record [k, neg, n, d]: k = "fin" is the sign-magnitude rational       *)
(* (-1)^neg * n/d in lowest terms (so +0 and -0 are different values, as   *)
(* in IEEE 754), k = "inf" is +/-Infinity and k = "nan" is NaN.  The       *)
(* binary64 range and precision are scaled down: a magnitude above         *)
(* MaxValue overflows to Infinity and a denominator above MaxDen is        *)
(* rounded to the nearest multiple of 1/MaxDen (underflowing to a signed   *)
(* zero).                                                                  *)
(***************************************************************************)
EXTENDS Integers, Sequences, FiniteSets, TLC

\* ------------------------------------------------------------------ bounds

\* Largest finite magnitude (stands for Number.MAX_VALUE).
MaxValue == 1000

\* Largest denominator kept exactly (stands for the 53-bit significand).
MaxDen == 40

\* Largest decimal digit used in generated inputs.
MaxDigit == 2

\* Nested activations of the parse functions that the call stack holds
\* (stands for the engine's call-stack capacity).
MaxStack == 17

\* --------------------------------------------------------- JavaScript numbers

NaN == [k |-> "nan", neg |-> FALSE, n |-> 0, d |-> 1]

Inf(neg) == [k |-> "inf", neg |-> neg, n |-> 1, d |-> 0]

\* `null`, the "no result" value of the parser and of evaluateMathExpression.
Null == [k |-> "null", neg |-> FALSE, n |-> 0, d |-> 1]

\* In the place of a returned value: the call did not return, a RangeError
\* (call stack size exceeded) was thrown out of it.
RangeError == [k |-> "RangeError", neg |-> FALSE, n |-> 0, d |-> 1]

RECURSIVE Gcd(_, _)
Gcd(a, b) == IF b = 0 THEN a ELSE Gcd(b, a % b)

\* (-1)^neg * n/d with the common factor g of n and d removed.
Lowest(neg, n, d, g) == [k |-> "fin", neg |-> neg, n |-> n \div g, d |-> d \div g]

Reduce(neg, n, d) == Lowest(neg, n, d, Gcd(n, d))

\* The number nearest to r (in lowest terms) that the scaled-down format holds.
Fit(r) ==
  IF r.n > MaxValue * r.d THEN Inf(r.neg)
  ELSE IF r.d <= MaxDen THEN r
  ELSE Reduce(r.neg,
              (r.n \div r.d) * MaxDen
                + (2 * (r.n % r.d) * MaxDen + r.d) \div (2 * r.d),
              MaxDen)

\* The number nearest to (-1)^neg * n/d that the scaled-down format holds.
Round(neg, n, d) == Fit(Reduce(neg, n, d))

\* The number that is the integer i.
Num(i) ==
  IF i > MaxValue THEN Inf(FALSE)
  ELSE IF -i > MaxValue THEN Inf(TRUE)
  ELSE [k |-> "fin", neg |-> i < 0, n |-> IF i < 0 THEN -i ELSE i, d |-> 1]

Zero == [k |-> "fin", neg |-> FALSE, n |-> 0, d |-> 1]

One == [k |-> "fin", neg |-> FALSE, n |-> 1, d |-> 1]

IsNaN(a) == a.k = "nan"

IsFin(a) == a.k = "fin"

IsInf(a) == a.k = "inf"

\* JavaScript `x === 0`: true of +0 and of -0.
IsZero(a) == a.k = "fin" /\ a.n = 0

IsInteger(a) == a.k = "fin" /\ a.d = 1

IsOddInteger(a) == a.k = "fin" /\ a.d = 1 /\ a.n % 2 = 1

\* |a| < |b|, |a| = |b| for finite a, b.
MagLess(a, b) == a.n * b.d < b.n * a.d

MagEq(a, b) == a.n * b.d = b.n * a.d

\* The numerator of a finite number with its sign.
SignedNum(a) == IF a.neg THEN -a.n ELSE a.n

\* a < b for numbers that are not NaN (-0 and +0 compare equal).
Less(a, b) ==
  IF IsInf(a) THEN a.neg /\ ~(IsInf(b) /\ b.neg)
  ELSE IF IsInf(b) THEN ~b.neg
  ELSE SignedNum(a) * b.d < SignedNum(b) * a.d

\* Unary minus.
JsNeg(a) == IF IsNaN(a) THEN NaN ELSE [a EXCEPT !.neg = ~a.neg]

\* The sum s/d of two finite numbers; a sum of zero is -0 only when both
\* addends are negative (bothNeg).
Sum(bothNeg, s, d) ==
  IF s = 0 THEN Reduce(bothNeg, 0, 1)
  ELSE IF s < 0 THEN Round(TRUE, -s, d)
  ELSE Round(FALSE, s, d)

\* a + b
JsAdd(a, b) ==
  IF IsNaN(a) \/ IsNaN(b) THEN NaN
  ELSE IF IsInf(a) THEN (IF IsInf(b) /\ a.neg # b.neg THEN NaN ELSE a)
  ELSE IF IsInf(b) THEN b
  ELSE Sum(a.neg /\ b.neg, SignedNum(a) * b.d + SignedNum(b) * a.d, a.d * b.d)

\* a - b
JsSub(a, b) == JsAdd(a, JsNeg(b))

\* a * b
JsMul(a, b) ==
  IF IsNaN(a) \/ IsNaN(b) THEN NaN
  ELSE IF IsInf(a) \/ IsInf(b)
       THEN (IF IsZero(a) \/ IsZero(b) THEN NaN ELSE Inf(a.neg # b.neg))
  ELSE Round(a.neg # b.neg, a.n * b.n, a.d * b.d)

\* a / b
JsDiv(a, b) ==
  IF IsNaN(a) \/ IsNaN(b) THEN NaN
  ELSE IF IsInf(a) THEN (IF IsInf(b) THEN NaN ELSE Inf(a.neg # b.neg))
  ELSE IF IsInf(b) THEN Reduce(a.neg # b.neg, 0, 1)
  ELSE IF IsZero(b) THEN (IF IsZero(a) THEN NaN ELSE Inf(a.neg # b.neg))
  ELSE Round(a.neg # b.neg, a.n * b.d, a.d * b.n)

\* a % b: the remainder of the truncating division, with the dividend's sign.
JsMod(a, b) ==
  IF IsNaN(a) \/ IsNaN(b) \/ IsInf(a) \/ IsZero(b) THEN NaN
  ELSE IF IsInf(b) \/ IsZero(a) THEN a
  ELSE Round(a.neg, (a.n * b.d) % (b.n * a.d), a.d * b.d)


\* --------------------------------------------------------------- Math.*

MathAbs(a) == IF IsNaN(a) THEN NaN ELSE [a EXCEPT !.neg = FALSE]

\* b to the k-th power, k a natural number, by repeated squaring.
Square(h) == JsMul(h, h)

TimesIfOdd(s, b, k) == IF k % 2 = 1 THEN JsMul(s, b) ELSE s

RECURSIVE PowNat(_, _)
PowNat(b, k) ==
  IF k = 0 THEN One ELSE TimesIfOdd(Square(PowNat(b, k \div 2)), b, k)

\* The largest i in lo .. hi-1 with (i/MaxDen)^q <= x, by bisection.
RECURSIVE RootBisect(_, _, _, _)
RootBisect(q, lo, hi, x) ==
  IF hi - lo <= 1 THEN lo
  ELSE IF Less(x, PowNat(Round(FALSE, (lo + hi) \div 2, MaxDen), q))
    THEN RootBisect(q, lo, (lo + hi) \div 2, x)
    ELSE RootBisect(q, (lo + hi) \div 2, hi, x)

\* The q-th root of a finite x > 0, to the format's precision 1/MaxDen.
Root(x, q) == Round(FALSE, RootBisect(q, 0, MaxValue * MaxDen + 1, x), MaxDen)

\* b to the e-th power for finite b > 0 or integer e, both nonzero: whole is
\* b to the integer part of |e|.
PowFraction(b, e, whole) ==
  IF e.d = 1 THEN whole
  ELSE JsMul(whole, PowNat(Root(b, e.d), e.n % e.d))

Reciprocal(neg, p) == IF neg THEN JsDiv(One, p) ELSE p

\* Math.pow(b, e), with ECMAScript's special cases (NaN ** 0 is 1).
MathPow(b, e) ==
  IF IsNaN(e) THEN NaN
  ELSE IF IsZero(e) THEN One
  ELSE IF IsNaN(b) THEN NaN
  ELSE IF IsInf(e) THEN
         (IF IsInf(b) \/ MagLess(One, b)
            THEN (IF e.neg THEN Zero ELSE Inf(FALSE))
          ELSE IF MagEq(b, One) THEN NaN
          ELSE (IF e.neg THEN Inf(FALSE) ELSE Zero))
  ELSE IF IsInf(b) THEN
         (IF e.neg THEN Reduce(b.neg /\ IsOddInteger(e), 0, 1)
          ELSE Inf(b.neg /\ IsOddInteger(e)))
  ELSE IF IsZero(b) THEN
         (IF e.neg THEN Inf(b.neg /\ IsOddInteger(e))
          ELSE Reduce(b.neg /\ IsOddInteger(e), 0, 1))
  ELSE IF b.neg /\ ~IsInteger(e) THEN NaN
  ELSE Reciprocal(e.neg, PowFraction(b, e, PowNat(b, e.n \div e.d)))

MathPI == Round(FALSE, 3142, 1000)

MathE == Round(FALSE, 2718, 1000)

MathSqrt(a) ==
  IF IsNaN(a) THEN NaN
  ELSE IF IsZero(a) THEN a
  ELSE IF a.neg THEN NaN
  ELSE IF IsInf(a) THEN a
  ELSE Root(a, 2)

MathExp(a) == MathPow(MathE, a)

\* The largest i in lo .. hi-1 with base^(i/MaxDen) <= x, by bisection; r is
\* the MaxDen-th root of base.
RECURSIVE LogBisect(_, _, _, _, _)
LogBisect(base, r, lo, hi, x) ==
  IF hi - lo <= 1 THEN lo
  ELSE IF Less(x, JsMul(PowNat(base, ((lo + hi) \div 2) \div MaxDen),
                        PowNat(r, ((lo + hi) \div 2) % MaxDen)))
    THEN LogBisect(base, r, lo, (lo + hi) \div 2, x)
    ELSE LogBisect(base, r, (lo + hi) \div 2, hi, x)

\* The logarithm of a finite x >= 1 to a base > 1, to the precision 1/MaxDen.
LogAbove(base, x) ==
  Round(FALSE, LogBisect(base, Root(base, MaxDen), 0, MaxValue * MaxDen + 1, x), MaxDen)

\* The logarithm of a finite x > 0 to a base > 1.
LogBase(base, x) ==
  IF Less(x, One) THEN JsNeg(LogAbove(base, JsDiv(One, x))) ELSE LogAbove(base, x)

MathLogTo(base, a) ==
  IF IsNaN(a) THEN NaN
  ELSE IF IsZero(a) THEN Inf(TRUE)
  ELSE IF a.neg THEN NaN
  ELSE IF IsInf(a) THEN a
  ELSE LogBase(base, a)

MathLog(a) == MathLogTo(MathE, a)

MathLog10(a) == MathLogTo(Num(10), a)

\* Bhaskara's rational approximation of the sine of v half-turns,
\* 0 <= v <= 1: 16w / (5 - 4w) with w = v(1 - v).
Bhaskara(w) == JsDiv(JsMul(Num(16), w), JsSub(Num(5), JsMul(Num(4), w)))

SinHalfTurns(v) == Bhaskara(JsMul(v, JsSub(One, v)))

\* The sine of u half-turns, 0 <= u < 2.
SinTurns(u) ==
  IF Less(u, One) THEN SinHalfTurns(u) ELSE JsNeg(SinHalfTurns(JsSub(u, One)))

SignedAs(neg, s) == IF neg THEN JsNeg(s) ELSE s

\* Math.sin of an angle in radians.
MathSin(r) ==
  IF ~IsFin(r) THEN NaN
  ELSE IF IsZero(r) THEN r
  ELSE SignedAs(r.neg, SinTurns(JsMod(JsDiv(MathAbs(r), MathPI), Num(2))))

MathCos(r) ==
  IF ~IsFin(r) THEN NaN ELSE MathSin(JsAdd(r, JsDiv(MathPI, Num(2))))

MathTan(r) ==
  IF ~IsFin(r) THEN NaN
  ELSE IF IsZero(r) THEN r
  ELSE JsDiv(MathSin(r), MathCos(r))

MathFloor(a) ==
  IF ~IsFin(a) \/ a.d = 1 THEN a
  ELSE IF a.neg THEN Round(TRUE, a.n \div a.d + 1, 1)
  ELSE Reduce(FALSE, a.n \div a.d, 1)

MathCeil(a) == JsNeg(MathFloor(JsNeg(a)))

\* Math.round: to the nearest integer, a tie towards +Infinity.
MathRound(a) ==
  IF ~IsFin(a) \/ a.d = 1 THEN a
  ELSE IF a.neg THEN Reduce(TRUE, (2 * a.n + a.d - 1) \div (2 * a.d), 1)
  ELSE Reduce(FALSE, (2 * a.n + a.d) \div (2 * a.d), 1)

\* The smaller of two numbers as Math.min orders them (-0 below +0).
Min2(a, b) ==
  IF IsNaN(a) \/ IsNaN(b) THEN NaN
  ELSE IF Less(a, b) THEN a
  ELSE IF Less(b, a) THEN b
  ELSE IF a.neg THEN a ELSE b

Max2(a, b) ==
  IF IsNaN(a) \/ IsNaN(b) THEN NaN
  ELSE IF Less(a, b) THEN b
  ELSE IF Less(b, a) THEN a
  ELSE IF a.neg THEN b ELSE a

\* Math.min(...args): +Infinity for no argument.
RECURSIVE MathMin(_)
MathMin(args) ==
  IF Len(args) = 0 THEN Inf(FALSE) ELSE Min2(Head(args), MathMin(Tail(args)))

\* Math.max(...args): -Infinity for no argument.
RECURSIVE MathMax(_)
MathMax(args) ==
  IF Len(args) = 0 THEN Inf(TRUE) ELSE Max2(Head(args), MathMax(Tail(args)))

\* ------------------------------------------------------------- characters

Digits == <<"0", "1", "2", "3", "4", "5", "6", "7", "8", "9">>

LowerCase == <<"a", "b", "c", "d", "e", "f", "g", "h", "i", "j", "k", "l", "m",
               "n", "o", "p", "q", "r", "s", "t", "u", "v", "w", "x", "y", "z">>

UpperCase == <<"A", "B", "C", "D", "E", "F", "G", "H", "I", "J", "K", "L", "M",
               "N", "O", "P", "Q", "R", "S", "T", "U", "V", "W", "X", "Y", "Z">>

Range(f) == {f[i] : i \in DOMAIN f}

DigitSet == Range(Digits)

LetterSet == Range(LowerCase) \cup Range(UpperCase)

SpaceSet == {" ", "\t", "\n", "\r"}

\* /[0-9.]/
DigitOrDotSet == DigitSet \cup {"."}

\* /[a-zA-Z0-9]/
AlnumSet == LetterSet \cup DigitSet

\* /[0-9]/
IsDigit(c) == c \in DigitSet

\* /[0-9.]/
IsDigitOrDot(c) == c \in DigitOrDotSet

\* /[a-zA-Z]/
IsLetter(c) == c \in LetterSet

\* /[a-zA-Z0-9]/
IsAlnum(c) == c \in AlnumSet

\* /\s/, also what String.prototype.trim removes.
IsSpace(c) == c \in SpaceSet

DigitValueOf == [c \in DigitSet |-> (CHOOSE i \in DOMAIN Digits : Digits[i] = c) - 1]

DigitValue(c) == DigitValueOf[c]

LowerCaseOf ==
  [c \in LetterSet |->
     IF \E i \in DOMAIN UpperCase : UpperCase[i] = c
       THEN LowerCase[CHOOSE i \in DOMAIN UpperCase : UpperCase[i] = c]
       ELSE c]

\* String.prototype.toLowerCase on one character.
ToLowerCase(c) == IF c \in LetterSet THEN LowerCaseOf[c] ELSE c

\* The first index >= i of s whose character is not in the class, or
\* Len(s) + 1.
RECURSIVE RunEnd(_, _, _)
RunEnd(class, s, i) ==
  IF i <= Len(s) /\ s[i] \in class THEN RunEnd(class, s, i + 1) ELSE i

\* The characters of a run as one string (name += s[i++]), lower-cased.
RECURSIVE LowerName(_)
LowerName(run) ==
  IF Len(run) = 0 THEN "" ELSE ToLowerCase(Head(run)) \o LowerName(Tail(run))

\* ------------------------------------------------------------- parseFloat

\* The value of a run of decimal digits read as an integer.
RECURSIVE IntValue(_, _)
IntValue(run, acc) ==
  IF Len(run) = 0 THEN acc
  ELSE IntValue(Tail(run), JsAdd(JsMul(acc, Num(10)), Num(DigitValue(Head(run)))))

\* The value of a run of decimal digits read as the digits after the point.
RECURSIVE FracValue(_)
FracValue(run) ==
  IF Len(run) = 0 THEN Zero
  ELSE JsDiv(JsAdd(Num(DigitValue(Head(run))), FracValue(Tail(run))), Num(10))

\* parseFloat on a run of digits and points: the longest prefix that is a
\* decimal literal (digits, then optionally a point and digits) is read and
\* the rest of the run is ignored; NaN when no prefix is a literal.
parseFloat(num) ==
  LET i == RunEnd(DigitSet, num, 1)
      whole == SubSeq(num, 1, i - 1)
      hasPoint == i <= Len(num) /\ num[i] = "."
      j == IF hasPoint THEN RunEnd(DigitSet, num, i + 1) ELSE i
      frac == IF hasPoint THEN SubSeq(num, i + 1, j - 1) ELSE <<>>
  IN IF Len(whole) = 0 /\ Len(frac) = 0 THEN NaN
     ELSE JsAdd(IntValue(whole, Zero), FracValue(frac))

\* ----------------------------------------------------------------- tokens

MATH_FUNCTIONS ==
  <<"sqrt", "sin", "cos", "tan", "abs", "round", "floor", "ceil", "log",
    "log10", "exp", "min", "max">>

\* A whitelist test that lets every name through.
AnyName(lower) == TRUE

\* MATH_FUNCTIONS.includes(lower)
IsMathFunction(lower) == \E i \in DOMAIN MATH_FUNCTIONS : MATH_FUNCTIONS[i] = lower

NumberTok(v) == [type |-> "number", value |-> v]

OpTok(o) == [type |-> "op", value |-> o]

LParenTok == [type |-> "lparen"]

RParenTok == [type |-> "rparen"]

CommaTok == [type |-> "comma"]

FuncTok(name) == [type |-> "func", name |-> name]

\* What tokens[pos] is when pos is not an index of tokens.
Undefined == [type |-> "undefined"]

\* A normalisation that replaces `^` and keeps the whitespace.
RECURSIVE KeepSpaces(_)
KeepSpaces(input) ==
  IF Len(input) = 0 THEN <<>>
  ELSE (IF Head(input) = "^" THEN <<"*", "*">> ELSE <<Head(input)>>)
         \o KeepSpaces(Tail(input))

\* input.replace(/\s+/g, '').replace(/\^/g, '**')
RECURSIVE StripAndNormalise(_)
StripAndNormalise(input) ==
  IF Len(input) = 0 THEN <<>>
  ELSE LET c == Head(input)
           rest == StripAndNormalise(Tail(input))
       IN IF IsSpace(c) THEN rest
          ELSE IF c = "^" THEN <<"*", "*">> \o rest
          ELSE <<c>> \o rest

\* The while loop of tokenize from index i (1-based) with the tokens pushed
\* so far; <<>> when it returns [].
RECURSIVE Scan(_, _, _), ScanNumber(_, _, _, _), ScanName(_, _, _, _)

Scan(s, i, acc) ==
  IF i > Len(s) THEN acc
  ELSE IF IsDigitOrDot(s[i]) THEN
    ScanNumber(s, RunEnd(DigitOrDotSet, s, i), acc,
               parseFloat(SubSeq(s, i, RunEnd(DigitOrDotSet, s, i) - 1)))
  ELSE IF i < Len(s) /\ s[i] = "*" /\ s[i + 1] = "*" THEN
    Scan(s, i + 2, Append(acc, OpTok("**")))
  ELSE IF s[i] \in {"+", "-", "*", "/", "%"} THEN
    Scan(s, i + 1, Append(acc, OpTok(s[i])))
  ELSE IF s[i] = "(" THEN Scan(s, i + 1, Append(acc, LParenTok))
  ELSE IF s[i] = ")" THEN Scan(s, i + 1, Append(acc, RParenTok))
  ELSE IF s[i] = "," THEN Scan(s, i + 1, Append(acc, CommaTok))
  ELSE IF IsLetter(s[i]) THEN
    ScanName(s, RunEnd(AlnumSet, s, i), acc,
             LowerName(SubSeq(s, i, RunEnd(AlnumSet, s, i) - 1)))
  ELSE <<>>

\* After a run of digits and points ending before index j: n is its
\* parseFloat.
ScanNumber(s, j, acc, n) ==
  IF IsNaN(n) THEN <<>> ELSE Scan(s, j, Append(acc, NumberTok(n)))

\* After an identifier run ending before index j: lower is its lower-cased
\* name.
ScanName(s, j, acc, lower) ==
  IF lower = "pi" THEN Scan(s, j, Append(acc, NumberTok(MathPI)))
  ELSE IF lower = "e" THEN Scan(s, j, Append(acc, NumberTok(MathE)))
  ELSE IF IsMathFunction(lower) THEN Scan(s, j, Append(acc, FuncTok(lower)))
  ELSE <<>>

tokenize(input) == Scan(StripAndNormalise(input), 1, <<>>)

\* ------------------------------------------------------------------ state

VARIABLES
  input,    \* the argument of the latest call of evaluateMathExpression
            \* (before the first call: of the call to come)
  tokens,   \* module-scope `tokens`
  pos,      \* module-scope `pos`
  result,   \* what the latest call returned
  divZero,  \* observation: the latest call applied / or % to a zero right operand
  entry,    \* observation: the module state the latest call found on entry
  called,   \* whether evaluateMathExpression has been called since module load
  \* looksLikeMathExpression
  lookInput, \* the argument of the call of looksLikeMathExpression
  looks,     \* what the call returned
  looked,    \* whether looksLikeMathExpression has been called
  \* App (the launcher window)
  commandSearch,         \* state commandSearch
  mode,                  \* state mode
  selectedCommand,       \* state selectedCommand: whether it is non-null
  showClipboardManager,  \* state showClipboardManager
  initialTerminalCommand, \* state initialTerminalCommand
  isValidCommand,        \* what useCommandValidator(commandSearch) returned
  mounted,               \* whether the latest render of App returned
  clipboard,             \* the text last handed to writeClipboard
  copy,                  \* observation: the latest step, when it called
                         \* handleCopyCalculatorResult
  \* clipboardManager (main process)
  guarded,        \* which pollClipboard runs: the one with the focus check
  stored,         \* the value stored under CLIPBOARD_STORAGE_KEY
  sysText,        \* the text on the system clipboard
  sysImage,       \* the image on the system clipboard, as its PNG bytes
  windowVisible,  \* mainWindowRef.isVisible()
  windowFocused,  \* mainWindowRef.isFocused()
  lastTextHash,   \* module-scope lastTextHash
  lastImageHash,  \* module-scope lastImageHash
  procs,          \* the activations of async functions in flight
  nextId,         \* entries created so far, plus one (randomUUID, Date.now)
  history,        \* what the latest getClipboardHistory returned
  cut,            \* observation: entries the latest setEntries sliced off
  focusedTick,    \* observation: what poll ticks that started with the
                  \* window visible and focused have done
  \* TerminalSession (main process)
  ptyProcess,     \* this.ptyProcess: a shell, or NoShell for null
  shells,         \* every shell: not spawned, running, exiting or exited
  spawned,        \* shells spawned so far
  live,           \* the shell the latest start() spawned; NoShell after stop()
  reached,        \* observation: the latest step, when it was write or resize
  \* App (with terminal)
  pressed,        \* observation: the latest step, when it was a key press:
                  \* the key, and the mode it was pressed in
  \* useTerminal (renderer)
  lines,          \* the state lines of the mounted Terminal
  lineIdCounter,  \* module-scope lineIdCounter
  listeners,      \* handleOutput listeners registered with onTerminalOutput
  termRunning,    \* the state isRunning of useTerminal
  appended,       \* observation: the lines appended since the latest
                  \* startTerminal
  lastOutput,     \* observation: the latest step, when it was a
                  \* terminal-output event: its data and the lines it made
  \* useCommandValidator (renderer); its input is commandSearch and its state
  \* isValidCommand is the isValidCommand of App
  commandCache,   \* the state commandCache
  isChecking,     \* the state isChecking
  debounced,      \* the call validateCommand holds back, if any
  inFlight,       \* the validateShellCommand requests not yet answered
  requested,      \* observation: every input validateShellCommand was called with
  validatedFor,   \* observation: the input of the latest answer, if any
  \* the polling timer of the clipboard manager (main process)
  pollInterval,   \* module-scope pollInterval: a timer, or NoTimer for null
  timers,         \* the interval timers that are set and not cleared
  awaiting,       \* the initClipboardManager calls at `await getEntries()`
  initCalls,      \* initClipboardManager calls made so far
  beforeStop,     \* observation: initCalls when stopClipboardManager last
                  \* returned
  firedBy,        \* observation: the latest step, when it was a timer
                  \* invoking pollClipboard: the timer
  \* what the callers of the clipboard store have been told
  deletedIds,     \* observation: the ids whose deleteClipboardEntry resolved
  pinnedAs,       \* observation: per id, the flag of the pinClipboardEntry
                  \* that resolved with no pin or delete call for it since
  \* the settings store
  storedHotkeys,  \* what storage holds under the key 'hotkeys'
  hotkeyCall,     \* the call of setHotkey: its arguments, its position, the
                  \* object it hands to storage.set
  promise,        \* the Promise setHotkey returned
  hotkeysBefore   \* observation: storedHotkeys when setHotkey was called

calcVars == <<input, tokens, pos, result, divZero, entry, called>>

looksVars == <<lookInput, looks, looked>>

appVars ==
  <<commandSearch, mode, selectedCommand, showClipboardManager,
    initialTerminalCommand, isValidCommand, mounted, clipboard, copy>>

clipVars ==
  <<guarded, stored, sysText, sysImage, windowVisible, windowFocused,
    lastTextHash, lastImageHash, procs, nextId, history, cut, focusedTick>>

termVars == <<ptyProcess, shells, spawned, live, reached>>

keyVars == <<pressed>>

outVars == <<lines, lineIdCounter, listeners, termRunning, appended, lastOutput>>

validatorVars ==
  <<commandCache, isChecking, debounced, inFlight, requested, validatedFor>>

timerVars == <<pollInterval, timers, awaiting, initCalls, beforeStop, firedBy>>

resolvedVars == <<deletedIds, pinnedAs>>

hotkeyVars == <<storedHotkeys, hotkeyCall, promise, hotkeysBefore>>

vars == <<calcVars, looksVars, appVars, clipVars, termVars, keyVars, outVars, validatorVars, timerVars, resolvedVars, hotkeyVars>>

\* ----------------------------------------------------------------- parser
\* The parse functions read and move the module-scope cursor.  Each is an
\* operator from the token list, the cursor before the call and the depth sp
\* of the activation (parse functions on the call stack, this one included)
\* to a record [val, pos, dz]: the value returned (Null for null, RangeError
\* when the call threw), the cursor after the call, and whether a division
\* or remainder by zero was evaluated.

\* tokens[pos]
peek(toks, p) == IF p < Len(toks) THEN toks[p + 1] ELSE Undefined

\* A consume that steps over the token behind the one it returns.
SkipsAhead(p) == p + 2

\* tokens[pos++]: the cursor after consume().
consume(p) == p + 1

Ret(v, p, dz) == [val |-> v, pos |-> p, dz |-> dz]

\* Math.sqrt(args[0]) and the like read `undefined` when args is empty, and
\* Math.f(undefined) is NaN.
FirstArg(args) == IF Len(args) = 0 THEN NaN ELSE args[1]

\* rad(x) of callMathFunc: degrees to radians.
rad(x) == JsDiv(JsMul(x, MathPI), Num(180))

callMathFunc(name, args) ==
  CASE name = "sqrt"  -> MathSqrt(FirstArg(args))
    [] name = "sin"   -> MathSin(rad(FirstArg(args)))
    [] name = "cos"   -> MathCos(rad(FirstArg(args)))
    [] name = "tan"   -> MathTan(rad(FirstArg(args)))
    [] name = "abs"   -> MathAbs(FirstArg(args))
    [] name = "round" -> MathRound(FirstArg(args))
    [] name = "floor" -> MathFloor(FirstArg(args))
    [] name = "ceil"  -> MathCeil(FirstArg(args))
    [] name = "log"   -> MathLog(FirstArg(args))
    [] name = "log10" -> MathLog10(FirstArg(args))
    [] name = "exp"   -> MathExp(FirstArg(args))
    [] name = "min"   -> MathMin(args)
    [] name = "max"   -> MathMax(args)
    [] OTHER          -> NaN

\* left / right and left % right as parseTerm computes them.
DivideOp(left, right) == IF IsZero(right) THEN NaN ELSE JsDiv(left, right)

RemainderOp(left, right) == IF IsZero(right) THEN NaN ELSE JsMod(left, right)

\* What parseFactor returns for `base ** exp`.
PowerOp(base, exp) == MathPow(base, exp)

\* A sign that is consumed and not applied.
Unsigned(t, val) == val

\* What parsePower returns for a sign t in front of the value val.
SignOp(t, val) == IF t.value = "-" THEN JsNeg(val) ELSE val

\* AddOp with the operands swapped.
SwappedAddOp(t, left, right) ==
  IF t.value = "+" THEN JsAdd(right, left) ELSE JsSub(right, left)

\* The sum or difference parseExpr computes for the operator token t.
AddOp(t, left, right) ==
  IF t.value = "+" THEN JsAdd(left, right) ELSE JsSub(left, right)

\* The product, quotient or remainder parseTerm computes for the operator
\* token t.
MulOp(t, left, right) ==
  IF t.value = "*" THEN JsMul(left, right)
  ELSE IF t.value = "/" THEN DivideOp(left, right)
  ELSE RemainderOp(left, right)

IsAddOp(t) == t.type = "op" /\ (t.value = "+" \/ t.value = "-")

IsMulOp(t) == t.type = "op" /\ (t.value = "*" \/ t.value = "/" \/ t.value = "%")

IsPowOp(t) == t.type = "op" /\ t.value = "**"

\* The result of an argument list: ok is FALSE when an argument returned
\* null or threw, and val is then what it returned.
Args(ok, args, p, dz) ==
  [ok |-> ok, args |-> args, pos |-> p, dz |-> dz, val |-> Null]

\* What a function call returns once its arguments are parsed and the
\* closing parenthesis is consumed.
CallResult(name, args) == callMathFunc(name, args)

\* The activation at depth sp does not fit on the call stack.
Overflows(sp) == sp > MaxStack

\* The call returned null or threw: the caller returns null (`if (x === null)
\* return null`) or is unwound by the exception.
Failed(r) == r.val = Null \/ r.val = RangeError

RECURSIVE parseExpr(_, _, _), parseExprLeft(_, _, _),
          parseExprLoop(_, _, _, _, _), parseExprRight(_, _, _, _, _, _),
          parseTerm(_, _, _), parseTermLeft(_, _, _),
          parseTermLoop(_, _, _, _, _), parseTermRight(_, _, _, _, _, _),
          parseFactor(_, _, _), parseFactorBase(_, _, _), parseFactorExp(_, _),
          Exponent(_, _, _),
          parsePower(_, _, _), parsePowerSigned(_, _),
          parseAtom(_, _, _), parseAtomToken(_, _, _, _), parseAtomParen(_, _),
          parseAtomFirst(_, _, _), parseAtomCall(_, _, _),
          parseArgs(_, _, _, _, _), parseArgsNext(_, _, _, _, _)

parseExpr(toks, p, sp) ==
  IF Overflows(sp) THEN Ret(RangeError, p, FALSE)
  ELSE parseExprLeft(toks, parseTerm(toks, p, sp + 1), sp)

\* After `let left = parseTerm()`.
parseExprLeft(toks, l, sp) ==
  IF Failed(l) THEN l ELSE parseExprLoop(toks, l.val, l.pos, l.dz, sp)

\* The while (true) loop of parseExpr.
parseExprLoop(toks, left, p, dz, sp) ==
  IF IsAddOp(peek(toks, p))
    THEN parseExprRight(toks, left, peek(toks, p), dz,
                        parseTerm(toks, consume(p), sp + 1), sp)
    ELSE Ret(left, p, dz)

\* After `const right = parseTerm()` in the loop of parseExpr.
parseExprRight(toks, left, t, dz, r, sp) ==
  IF Failed(r) THEN Ret(r.val, r.pos, dz \/ r.dz)
  ELSE parseExprLoop(toks, AddOp(t, left, r.val), r.pos, dz \/ r.dz, sp)

parseTerm(toks, p, sp) ==
  IF Overflows(sp) THEN Ret(RangeError, p, FALSE)
  ELSE parseTermLeft(toks, parseFactor(toks, p, sp + 1), sp)

\* After `let left = parseFactor()`.
parseTermLeft(toks, l, sp) ==
  IF Failed(l) THEN l ELSE parseTermLoop(toks, l.val, l.pos, l.dz, sp)

\* The while (true) loop of parseTerm.
parseTermLoop(toks, left, p, dz, sp) ==
  IF IsMulOp(peek(toks, p))
    THEN parseTermRight(toks, left, peek(toks, p), dz,
                        parseFactor(toks, consume(p), sp + 1), sp)
    ELSE Ret(left, p, dz)

\* After `const right = parseFactor()` in the loop of parseTerm.
parseTermRight(toks, left, t, dz, r, sp) ==
  IF Failed(r) THEN Ret(r.val, r.pos, dz \/ r.dz)
  ELSE parseTermLoop(toks, MulOp(t, left, r.val), r.pos,
                     dz \/ r.dz \/ (t.value # "*" /\ IsZero(r.val)), sp)

\* An exponent parsed by parsePower: `**` no longer nests to the right.
PowerOperand(toks, p, sp) == parsePower(toks, p, sp)

\* The factor to the right of `**` in parseFactor.
Exponent(toks, p, sp) == parseFactor(toks, p, sp)

parseFactor(toks, p, sp) ==
  IF Overflows(sp) THEN Ret(RangeError, p, FALSE)
  ELSE parseFactorBase(toks, parsePower(toks, p, sp + 1), sp)

\* After `const base = parsePower()`.
parseFactorBase(toks, base, sp) ==
  IF Failed(base) THEN base
  ELSE IF IsPowOp(peek(toks, base.pos))
    THEN parseFactorExp(base, Exponent(toks, consume(base.pos), sp + 1))
    ELSE base

\* After `const exp = parseFactor()`.
parseFactorExp(base, exp) ==
  IF Failed(exp) THEN Ret(exp.val, exp.pos, base.dz \/ exp.dz)
  ELSE Ret(PowerOp(base.val, exp.val), exp.pos, base.dz \/ exp.dz)

parsePower(toks, p, sp) ==
  IF Overflows(sp) THEN Ret(RangeError, p, FALSE)
  ELSE IF IsAddOp(peek(toks, p))
    THEN parsePowerSigned(peek(toks, p), parsePower(toks, consume(p), sp + 1))
    ELSE parseAtom(toks, p, sp + 1)

\* After `const val = parsePower()` behind the sign token t.
parsePowerSigned(t, v) ==
  IF Failed(v) THEN v ELSE Ret(SignOp(t, v.val), v.pos, v.dz)

\* The argument list of a function call after the first argument: the
\* while (peek()?.type === 'comma') loop, in the activation of parseAtom at
\* depth sp.
parseArgs(toks, args, p, dz, sp) ==
  IF peek(toks, p).type = "comma"
    THEN parseArgsNext(toks, args, dz, parseExpr(toks, consume(p), sp + 1), sp)
    ELSE Args(TRUE, args, p, dz)

\* After `const next = parseExpr()`.
parseArgsNext(toks, args, dz, next, sp) ==
  IF Failed(next) THEN [Args(FALSE, args, next.pos, dz \/ next.dz) EXCEPT !.val = next.val]
  ELSE parseArgs(toks, Append(args, next.val), next.pos, dz \/ next.dz, sp)

parseAtom(toks, p, sp) ==
  IF Overflows(sp) THEN Ret(RangeError, p, FALSE)
  ELSE parseAtomToken(toks, peek(toks, p), consume(p), sp)

\* After `const t = consume()`: p1 is the cursor behind t.
parseAtomToken(toks, t, p1, sp) ==
  IF t = Undefined THEN Ret(Null, p1, FALSE)
  ELSE IF t.type = "number" THEN Ret(t.value, p1, FALSE)
  ELSE IF t.type = "lparen" THEN parseAtomParen(toks, parseExpr(toks, p1, sp + 1))
  ELSE IF t.type = "func" THEN
    IF peek(toks, p1).type # "lparen" THEN Ret(Null, p1, FALSE)
    ELSE parseAtomCall(toks, t.name,
           IF peek(toks, consume(p1)).type # "rparen"
             THEN parseAtomFirst(toks, parseExpr(toks, consume(p1), sp + 1), sp)
             ELSE Args(TRUE, <<>>, consume(p1), FALSE))
  ELSE Ret(Null, p1, FALSE)

\* After `const val = parseExpr()` behind an opening parenthesis.
parseAtomParen(toks, v) ==
  IF Failed(v) THEN v
  ELSE IF peek(toks, v.pos).type # "rparen" THEN Ret(Null, v.pos, v.dz)
  ELSE Ret(v.val, consume(v.pos), v.dz)

\* After `const first = parseExpr()`, the first argument of a call.
parseAtomFirst(toks, first, sp) ==
  IF Failed(first) THEN [Args(FALSE, <<>>, first.pos, first.dz) EXCEPT !.val = first.val]
  ELSE parseArgs(toks, <<first.val>>, first.pos, first.dz, sp)

\* After the argument list a of a call of the function `name`.
parseAtomCall(toks, name, a) ==
  IF ~a.ok THEN Ret(a.val, a.pos, a.dz)
  ELSE IF peek(toks, a.pos).type # "rparen" THEN Ret(Null, a.pos, a.dz)
  ELSE Ret(CallResult(name, a.args), consume(a.pos), a.dz)

\* ------------------------------------------------- evaluateMathExpression

\* String.prototype.trim
RECURSIVE TrimStart(_)
TrimStart(s) ==
  IF Len(s) > 0 /\ IsSpace(Head(s)) THEN TrimStart(Tail(s)) ELSE s

RECURSIVE TrimEnd(_)
TrimEnd(s) ==
  IF Len(s) > 0 /\ IsSpace(s[Len(s)]) THEN TrimEnd(SubSeq(s, 1, Len(s) - 1)) ELSE s

Trim(s) == TrimEnd(TrimStart(s))

\* A parse that starts from the cursor the previous call left.
StalePos(p) == p

\* `pos = 0` before parseExpr(): the cursor the parse starts from, given the
\* cursor the previous call left.
StartPos(p) == 0

\* A completeness test that forgets the leftover tokens.
NoValue(r, toks) == r.val = Null

\* `result === null || pos !== tokens.length`
Incomplete(r, toks) == r.val = Null \/ r.pos # Len(toks)

\* `Number.isNaN(result) || !Number.isFinite(result)`
NotFinite(v) == IsNaN(v) \/ ~IsFin(v)

\* What a call returns and the module state it leaves.
Outcome(res, toks, p, dz) == [result |-> res, tokens |-> toks, pos |-> p, dz |-> dz]

\* After `const result = parseExpr()`.
Parsed(toks, r) ==
  IF r.val = RangeError THEN Outcome(RangeError, toks, r.pos, r.dz)
  ELSE IF Incomplete(r, toks) THEN Outcome(Null, toks, r.pos, r.dz)
  ELSE IF NotFinite(r.val) THEN Outcome(Null, toks, r.pos, r.dz)
  ELSE Outcome(r.val, toks, r.pos, r.dz)

\* After `tokens = tokenize(trimmed)`, with the cursor p0 the call found.
Tokenized(toks, p0) ==
  IF Len(toks) = 0 THEN Outcome(Null, toks, p0, FALSE)
  ELSE Parsed(toks, parseExpr(toks, StartPos(p0), 1))

\* After `const trimmed = input.trim()`.
Trimmed(trimmed, toks0, p0) ==
  IF Len(trimmed) = 0 THEN Outcome(Null, toks0, p0, FALSE)
  ELSE Tokenized(tokenize(trimmed), p0)

\* The body of evaluateMathExpression from the module state (toks0, p0):
\* the value returned and the module state it leaves.
Evaluate(x, toks0, p0) == Trimmed(Trim(x), toks0, p0)

\* The call evaluateMathExpression(x) with the outcome e.
Return(x, e) ==
  /\ input' = x
  /\ tokens' = e.tokens
  /\ pos' = e.pos
  /\ result' = e.result
  /\ divZero' = e.dz
  /\ entry' = [tokens |-> tokens, pos |-> pos]
  /\ called' = TRUE

evaluateMathExpression(x) == Return(x, Evaluate(x, tokens, pos))

\* ------------------------------------------------ looksLikeMathExpression

\* \w of a regular expression: [A-Za-z0-9_]
WordSet == AlnumSet \cup {"_"}

\* Whether the i-th character of s exists and is a word character.
IsWordAt(s, i) == i >= 1 /\ i <= Len(s) /\ s[i] \in WordSet

\* \b between the i-th and the (i+1)-th character of s.
WordBoundary(s, i) == IsWordAt(s, i) # IsWordAt(s, i + 1)

\* The word w (in lower case) matches s from index i under the flag /i.
MatchesAt(s, i, w) ==
  /\ i + Len(w) - 1 <= Len(s)
  /\ \A k \in 1 .. Len(w) : ToLowerCase(s[i + k - 1]) = w[k]

\* The alternatives of the two word patterns of looksLikeMathExpression.
HeuristicWords ==
  { <<"s", "q", "r", "t">>, <<"s", "i", "n">>, <<"c", "o", "s">>,
    <<"t", "a", "n">>, <<"a", "b", "s">>, <<"r", "o", "u", "n", "d">>,
    <<"f", "l", "o", "o", "r">>, <<"c", "e", "i", "l">>, <<"l", "o", "g">>,
    <<"e", "x", "p">>, <<"m", "i", "n">>, <<"m", "a", "x">>, <<"p", "i">>,
    <<"e">> }

\* /\b(w1|w2|...)\b/i.test(s)
HasWord(s, words) ==
  \E w \in words : \E i \in 1 .. Len(s) :
    /\ MatchesAt(s, i, w)
    /\ WordBoundary(s, i - 1)
    /\ WordBoundary(s, i + Len(w) - 1)

\* /^w1|^w2|.../i.test(s)
StartsWithWord(s, words) == \E w \in words : MatchesAt(s, 1, w)

\* /\d/.test(s)
hasDigit(s) == \E i \in 1 .. Len(s) : IsDigit(s[i])

\* /[+\-*\/%\^]/
OperatorSet == {"+", "-", "*", "/", "%", "^"}

\* /\.\d|\d\./.test(s)
HasDecimal(s) ==
  \E i \in 1 .. Len(s) - 1 :
    \/ s[i] = "." /\ IsDigit(s[i + 1])
    \/ IsDigit(s[i]) /\ s[i + 1] = "."

hasOp(s) ==
  \/ \E i \in 1 .. Len(s) : s[i] \in OperatorSet
  \/ HasDecimal(s)
  \/ HasWord(s, HeuristicWords)

\* /^[\d.(+\-]/
StartSet == DigitSet \cup {".", "(", "+", "-"}

startsReasonable(s) == s[1] \in StartSet \/ StartsWithWord(s, HeuristicWords)

\* The body of looksLikeMathExpression behind `const s = input.trim()`.
LooksTrimmed(s) ==
  IF Len(s) < 2 THEN FALSE
  ELSE hasDigit(s) /\ hasOp(s) /\ startsReasonable(s)

\* The call looksLikeMathExpression(x).
looksLikeMathExpression(x) ==
  /\ lookInput' = x
  /\ looks' = LooksTrimmed(Trim(x))
  /\ looked' = TRUE

\* ------------------------------------------------- App (with calculator)

\* const CLIPBOARD_KEYWORDS (those in the ASCII letters of the model)
CLIPBOARD_KEYWORDS ==
  { <<"c", "l", "i", "p">>, <<"c", "b">>,
    <<"c", "l", "i", "p", "b", "o", "a", "r", "d">>,
    <<"z", "w", "i", "s", "c", "h", "e", "n", "a", "b", "l", "a", "g", "e">>,
    <<"b", "i", "l", "d">>, <<"i", "m", "a", "g", "e">> }

\* String.prototype.includes on a string in lower case
Includes(q, kw) ==
  \E i \in 1 .. Len(q) - Len(kw) + 1 : SubSeq(q, i, i + Len(kw) - 1) = kw

\* String.prototype.toLowerCase, character by character
LowerChars(s) == [i \in 1 .. Len(s) |-> ToLowerCase(s[i])]

showClipboardManagerOption(search) ==
  \/ Len(Trim(search)) = 0
  \/ \E kw \in CLIPBOARD_KEYWORDS : Includes(Trim(LowerChars(search)), kw)

\* An item that can be selected whatever evaluation returned.
AlwaysValid(c) == TRUE

\* const hasValidCalcResult = calcResult !== null
hasValidCalcResult(c) == c # Null

\* The condition under which <Command> (input and list) is rendered.
CommandShown ==
  mounted /\ mode = "search" /\ ~selectedCommand /\ ~showClipboardManager

\* The items of the Calculator group in the rendered list; `result` and
\* `looks` are calcResult and showCalculator of the latest render.
CalculatorItems ==
  IF CommandShown /\ looks
    THEN IF hasValidCalcResult(result)
           THEN {[value |-> "calc-result", disabled |-> FALSE]}
           ELSE {[value |-> "calc-invalid", disabled |-> TRUE]}
    ELSE {}

\* The prop defaultValue of <Command>.
defaultValue ==
  IF looks /\ hasValidCalcResult(result) THEN "calc-result"
  ELSE IF isValidCommand /\ Len(Trim(commandSearch)) > 0 THEN "terminal"
  ELSE "undefined"

\* Number.isInteger(calcResult) ? String(calcResult)
\*   : String(Number(calcResult.toPrecision(10))): the number the text
\* denotes (10 significant digits stand for the precision of the model).
ResultText(v) == IF IsInteger(v) THEN v ELSE Round(v.neg, v.n, v.d)

NoCopy == [ran |-> FALSE, search |-> <<>>, wrote |-> FALSE]

\* handleCopyCalculatorResult, with calcResult of the latest render.
handleCopyCalculatorResult ==
  /\ clipboard' = IF result = Null THEN clipboard ELSE ResultText(result)
  /\ commandSearch' = IF result = Null THEN commandSearch ELSE <<>>
  /\ copy' = [ran |-> TRUE, search |-> commandSearch, wrote |-> result # Null]
  /\ UNCHANGED <<mode, selectedCommand, showClipboardManager,
                 initialTerminalCommand, isValidCommand>>

\* The calculator item is activated: onSelect of the result item; the
\* disabled item has no onSelect.
SelectCalculatorItem ==
  /\ \E item \in CalculatorItems : ~item.disabled
  /\ handleCopyCalculatorResult

\* handleCopyCalculatorResult is called while the disabled item is shown
\* (no element of the rendered list calls it then: the call stands for any
\* holder of the handler).
CopyWhileInvalid ==
  /\ \E item \in CalculatorItems : item.disabled
  /\ handleCopyCalculatorResult

\* CommandInput onValueChange={setCommandSearch}
TypeSearch(x) ==
  /\ CommandShown
  /\ commandSearch' = x
  /\ copy' = NoCopy
  /\ UNCHANGED <<mode, selectedCommand, showClipboardManager,
                 initialTerminalCommand, isValidCommand, clipboard>>

\* handleInputKeyDown with e.key === 'Escape' (the input is rendered).
InputEscape ==
  /\ CommandShown
  /\ IF mode = "exit-confirmation"
       THEN mode' = "search" /\ commandSearch' = <<>>
            /\ UNCHANGED showClipboardManager
       ELSE IF showClipboardManager
         THEN showClipboardManager' = FALSE /\ UNCHANGED <<mode, commandSearch>>
         ELSE commandSearch' = <<>> /\ UNCHANGED <<mode, showClipboardManager>>
  /\ copy' = NoCopy
  /\ UNCHANGED <<selectedCommand, initialTerminalCommand, isValidCommand,
                 clipboard>>

\* The window keydown handler with e.key === 'Escape'.
WindowEscape ==
  /\ mounted
  /\ IF mode = "exit-confirmation"
       THEN mode' = "search" /\ commandSearch' = <<>>
            /\ UNCHANGED showClipboardManager
       ELSE IF showClipboardManager
         THEN showClipboardManager' = FALSE /\ UNCHANGED <<mode, commandSearch>>
         ELSE UNCHANGED <<mode, commandSearch, showClipboardManager>>
  /\ copy' = NoCopy
  /\ UNCHANGED <<selectedCommand, initialTerminalCommand, isValidCommand,
                 clipboard>>

\* onSelect of the Clipboard Manager item.
SelectClipboardManager ==
  /\ CommandShown
  /\ showClipboardManagerOption(commandSearch)
  /\ showClipboardManager' = TRUE
  /\ commandSearch' = <<>>
  /\ copy' = NoCopy
  /\ UNCHANGED <<mode, selectedCommand, initialTerminalCommand,
                 isValidCommand, clipboard>>

\* ClipboardPage calls the setShowClipboardManager it was given.
CloseClipboardManager ==
  /\ mounted /\ mode = "search" /\ showClipboardManager
  /\ showClipboardManager' = FALSE
  /\ copy' = NoCopy
  /\ UNCHANGED <<commandSearch, mode, selectedCommand,
                 initialTerminalCommand, isValidCommand, clipboard>>

\* handleRunInTerminal, onSelect of the Terminal item.
RunInKitty ==
  /\ CommandShown
  /\ isValidCommand /\ Len(Trim(commandSearch)) > 0
  /\ commandSearch' = <<>>
  /\ copy' = NoCopy
  /\ UNCHANGED <<mode, selectedCommand, showClipboardManager,
                 initialTerminalCommand, isValidCommand, clipboard>>

\* Commands calls the setSelectedCommand it was given (a command is opened),
\* CommandPage calls it with null.
SetSelectedCommand(c) ==
  /\ IF c THEN CommandShown ELSE mounted /\ mode = "search" /\ selectedCommand
  /\ selectedCommand' = c
  /\ copy' = NoCopy
  /\ UNCHANGED <<commandSearch, mode, showClipboardManager,
                 initialTerminalCommand, isValidCommand, clipboard>>

\* useCommandValidator reports another verdict.
ValidatorReports(v) ==
  /\ mounted
  /\ isValidCommand # v
  /\ isValidCommand' = v
  /\ copy' = NoCopy
  /\ UNCHANGED <<commandSearch, mode, selectedCommand, showClipboardManager,
                 initialTerminalCommand, clipboard>>

\* The render that follows a state change, with the new search text: the
\* calls of evaluateMathExpression and looksLikeMathExpression in the body of
\* App.  An exception thrown by the first leaves the render unfinished and
\* the second call unmade.
Render(search) ==
  /\ evaluateMathExpression(search)
  /\ IF result' = RangeError
       THEN mounted' = FALSE /\ UNCHANGED looksVars
       ELSE mounted' = TRUE /\ looksLikeMathExpression(search)

\* --------------------------------------------------------- clipboardManager

\* const MAX_ENTRIES = 100, scaled down.
MAX_ENTRIES == 2

\* Entries created in one run (randomUUID is called at most this often).
MaxIds == 3

\* Activations of async functions in flight at one time.
MaxProcs == 1

\* The texts and images that come onto the system clipboard.
ClipTexts == {<<>>, <<"A", "a">>, <<" ", "A", "a">>}

ClipImages == {<<>>, <<7>>}

\* String.prototype.charCodeAt for the characters of ClipTexts
CharCodeOf == [c \in {"A", "a", " "} |->
                 CASE c = "A" -> 65 [] c = "a" -> 97 [] OTHER -> 32]

\* ((h << 5) - h + code) | 0 for a 32-bit h and a code below 65536: 31 h +
\* code wrapped to 32 bits, computed on the 16-bit halves of h.
LowHalf(h) == h % 65536

HighHalf(h) == (h - LowHalf(h)) \div 65536

SignedHalf(x) == IF x % 65536 >= 32768 THEN (x % 65536) - 65536 ELSE x % 65536

HashStep(h, code) ==
  SignedHalf(31 * HighHalf(h) + ((31 * LowHalf(h) + code) \div 65536)) * 65536
    + ((31 * LowHalf(h) + code) % 65536)

\* The loop of hashString and of hashBuffer from index i with h so far.
RECURSIVE HashLoop(_, _, _)
HashLoop(codes, i, h) ==
  IF i > Len(codes) THEN h
  ELSE HashLoop(codes, i + 1, HashStep(h, codes[i]))

CharCodes(text) == [i \in 1 .. Len(text) |-> CharCodeOf[text[i]]]

\* null in lastTextHash and lastImageHash
NullHash == <<>>

\* hashString: String(h)
hashString(text) == <<HashLoop(CharCodes(text), 1, 0)>>

\* hashBuffer: `${buf.length}-${h}` (the images of the model are shorter
\* than 1024 bytes)
hashBuffer(buf) == <<Len(buf), HashLoop(buf, 1, 0)>>

NoEntry ==
  [id |-> 0, type |-> "none", text |-> <<>>, image |-> <<>>, timestamp |-> 0,
   pinned |-> FALSE]

\* { id: randomUUID(), text, timestamp: Date.now(), pinned: false, type: 'text' }
TextEntry(n, text) ==
  [id |-> n, type |-> "text", text |-> text, image |-> <<>>, timestamp |-> n,
   pinned |-> FALSE]

\* { id: randomUUID(), imageBase64, thumbnailBase64, timestamp: Date.now(),
\*   pinned: false, type: 'image' }
ImageEntry(n, image) ==
  [id |-> n, type |-> "image", text |-> <<>>, image |-> image, timestamp |-> n,
   pinned |-> FALSE]

\* entries.filter((e) => e.pinned)
RECURSIVE PinnedOf(_)
PinnedOf(entries) ==
  IF Len(entries) = 0 THEN <<>>
  ELSE (IF Head(entries).pinned THEN <<Head(entries)>> ELSE <<>>)
         \o PinnedOf(Tail(entries))

\* entries.filter((e) => !e.pinned)
RECURSIVE UnpinnedOf(_)
UnpinnedOf(entries) ==
  IF Len(entries) = 0 THEN <<>>
  ELSE (IF Head(entries).pinned THEN <<>> ELSE <<Head(entries)>>)
         \o UnpinnedOf(Tail(entries))

\* entries.filter((e) => e.id !== id)
RECURSIVE WithoutId(_, _)
WithoutId(entries, id) ==
  IF Len(entries) = 0 THEN <<>>
  ELSE (IF Head(entries).id = id THEN <<>> ELSE <<Head(entries)>>)
         \o WithoutId(Tail(entries), id)

\* A write of the whole list.
Unsliced(entries) == entries

\* entries.slice(0, MAX_ENTRIES)
Slice(entries) ==
  IF Len(entries) > MAX_ENTRIES THEN SubSeq(entries, 1, MAX_ENTRIES) ELSE entries

\* isDuplicateText
isDuplicateText(text, entries) ==
  \/ Len(Trim(text)) = 0
  \/ \E i \in 1 .. Len(entries) :
       /\ entries[i].type = "text"
       /\ Trim(entries[i].text) = Trim(text)
       /\ ~entries[i].pinned

\* Array.prototype.sort((a, b) => b.timestamp - a.timestamp): e put into the
\* sorted list behind the entries that are not older.
RECURSIVE InsertByTime(_, _)
InsertByTime(e, sorted) ==
  IF Len(sorted) = 0 THEN <<e>>
  ELSE IF Head(sorted).timestamp >= e.timestamp
    THEN <<Head(sorted)>> \o InsertByTime(e, Tail(sorted))
    ELSE <<e>> \o sorted

RECURSIVE SortByTime(_)
SortByTime(entries) ==
  IF Len(entries) = 0 THEN <<>>
  ELSE InsertByTime(entries[Len(entries)],
                    SortByTime(SubSeq(entries, 1, Len(entries) - 1)))

\* entries.findIndex((e) => e.id === id) found an entry.
HasId(entries, id) == \E i \in 1 .. Len(entries) : entries[i].id = id

\* entries[idx] = { ...entries[idx], pinned }
WithPinned(entries, id, pinned) ==
  [i \in 1 .. Len(entries) |->
     IF entries[i].id = id /\ ~HasId(SubSeq(entries, 1, i - 1), id)
       THEN [entries[i] EXCEPT !.pinned = pinned]
       ELSE entries[i]]

\* An activation slot that holds no activation.
Idle ==
  [kind |-> "idle", pc |-> "done", focused |-> FALSE, text |-> <<>>,
   entry |-> NoEntry, entries |-> <<>>, id |-> 0, pinned |-> FALSE]

NoProcs(n) == [p \in 1 .. n |-> Idle]

ProcIds == DOMAIN procs

\* The slot a new activation takes: the first free one.
FreeSlot(p) ==
  /\ procs[p].kind = "idle"
  /\ \A q \in ProcIds : q < p => procs[q].kind # "idle"

\* mainWindowRef?.isVisible() && mainWindowRef?.isFocused()
VisibleAndFocused == windowVisible /\ windowFocused

\* What the ticks that started with the window visible and focused are
\* seen to do in this step: f tells whether the step belongs to such a tick.
Observe(f, reads, adds) ==
  focusedTick' =
    [read |-> focusedTick.read \/ (f /\ reads),
     hashes |-> focusedTick.hashes
                  \/ (f /\ (lastTextHash' # lastTextHash
                              \/ lastImageHash' # lastImageHash)),
     added |-> focusedTick.added \/ (f /\ adds)]

\* The image half of pollClipboard, from `const img = ...readImage()` to the
\* call of addEntry or the end, in the activation p of a tick that started
\* with VisibleAndFocused = f.
ImageIsNew == Len(sysImage) > 0 /\ hashBuffer(sysImage) # lastImageHash

ImageHalf(p, f) ==
  /\ ImageIsNew => nextId <= MaxIds
  /\ lastImageHash' = IF Len(sysImage) = 0 THEN NullHash ELSE hashBuffer(sysImage)
  /\ nextId' = IF ImageIsNew THEN nextId + 1 ELSE nextId
  /\ procs' = [procs EXCEPT ![p] =
       IF ImageIsNew
         THEN [Idle EXCEPT !.kind = "poll", !.pc = "addRead", !.focused = f,
                           !.entry = ImageEntry(nextId, sysImage)]
         ELSE Idle]

\* The text half of pollClipboard from `const text = ...readText()`: up to
\* `await getEntries()` when the text is new, and on into the image half
\* when it is not.
TextHalf(p, f) ==
  IF Len(sysText) > 0 /\ hashString(sysText) # lastTextHash
    THEN /\ lastTextHash' = hashString(sysText)
         /\ procs' = [procs EXCEPT ![p] =
              [Idle EXCEPT !.kind = "poll", !.pc = "dupCheck", !.focused = f,
                                !.text = sysText]]
         /\ UNCHANGED <<lastImageHash, nextId>>
    ELSE /\ lastTextHash' = IF Len(sysText) = 0 THEN NullHash ELSE lastTextHash
         /\ ImageHalf(p, f)

\* The interval timer fires: pollClipboard runs up to its first await that
\* waits for storage.  The pollClipboard with the focus check returns at
\* once when the window is visible and focused.
Tick(p) ==
  /\ FreeSlot(p)
  /\ IF guarded /\ VisibleAndFocused
       THEN UNCHANGED <<lastTextHash, lastImageHash, procs, nextId, focusedTick>>
       ELSE TextHalf(p, VisibleAndFocused) /\ Observe(VisibleAndFocused, TRUE, FALSE)
  /\ UNCHANGED <<guarded, stored, sysText, sysImage, windowVisible,
                 windowFocused, history, cut>>

\* pollClipboard behind `const entries = await getEntries()`: the duplicate
\* test, then addEntry up to its `await getEntries()`, or the image half.
DupCheck(p) ==
  /\ procs[p].kind = "poll" /\ procs[p].pc = "dupCheck"
  /\ IF ~isDuplicateText(procs[p].text, stored)
       THEN /\ nextId <= MaxIds
            /\ nextId' = nextId + 1
            /\ procs' = [procs EXCEPT ![p].pc = "addRead",
                                      ![p].entry = TextEntry(nextId, procs[p].text)]
            /\ UNCHANGED lastImageHash
       ELSE ImageHalf(p, procs[p].focused)
  /\ Observe(procs[p].focused, ~isDuplicateText(procs[p].text, stored), FALSE)
  /\ UNCHANGED <<guarded, stored, sysText, sysImage, windowVisible,
                 windowFocused, lastTextHash, history, cut>>

\* addEntry behind `const entries = await getEntries()`: the new list is
\* handed to setEntries.
AddRead(p) ==
  /\ procs[p].kind = "poll" /\ procs[p].pc = "addRead"
  /\ procs' = [procs EXCEPT ![p].pc = "addWrite",
                            ![p].entries = <<procs[p].entry>>
                              \o PinnedOf(stored)
                              \o WithoutId(UnpinnedOf(stored), procs[p].entry.id)]
  /\ UNCHANGED <<guarded, stored, sysText, sysImage, windowVisible,
                 windowFocused, lastTextHash, lastImageHash, nextId, history,
                 cut, focusedTick>>

\* setEntries: storageSet(CLIPBOARD_STORAGE_KEY, entries.slice(0, MAX_ENTRIES))
setEntries(entries) ==
  /\ stored' = Slice(entries)
  /\ cut' = Len(entries) - Len(Slice(entries))

\* addEntry's setEntries completes; pollClipboard goes on behind
\* `await addEntry(...)`: into the image half after a text entry, to its end
\* after an image entry.
AddWrite(p) ==
  /\ procs[p].kind = "poll" /\ procs[p].pc = "addWrite"
  /\ setEntries(procs[p].entries)
  /\ IF procs[p].entry.type = "text"
       THEN ImageHalf(p, procs[p].focused)
       ELSE procs' = [procs EXCEPT ![p] = Idle] /\ UNCHANGED <<lastImageHash, nextId>>
  /\ Observe(procs[p].focused, procs[p].entry.type = "text", TRUE)
  /\ UNCHANGED <<guarded, sysText, sysImage, windowVisible, windowFocused,
                 lastTextHash, history>>

\* The ids of the entries the renderer shows.
ShownIds == {history[i].id : i \in 1 .. Len(history)}

\* pinClipboardEntry(id, pinned) is called for an entry the renderer shows.
CallPin(p, id, pinned) ==
  /\ FreeSlot(p)
  /\ id \in ShownIds
  /\ procs' = [procs EXCEPT ![p] =
       [Idle EXCEPT !.kind = "pin", !.pc = "read", !.id = id, !.pinned = pinned]]
  /\ UNCHANGED <<guarded, stored, sysText, sysImage, windowVisible,
                 windowFocused, lastTextHash, lastImageHash, nextId, history,
                 cut, focusedTick>>

\* pinClipboardEntry behind `const entries = await getEntries()`.
PinRead(p) ==
  /\ procs[p].kind = "pin" /\ procs[p].pc = "read"
  /\ procs' = [procs EXCEPT ![p] =
       IF HasId(stored, procs[p].id)
         THEN [procs[p] EXCEPT !.pc = "write",
                               !.entries = WithPinned(stored, procs[p].id, procs[p].pinned)]
         ELSE Idle]
  /\ UNCHANGED <<guarded, stored, sysText, sysImage, windowVisible,
                 windowFocused, lastTextHash, lastImageHash, nextId, history,
                 cut, focusedTick>>

\* deleteClipboardEntry(id) is called for an entry the renderer shows.
CallDelete(p, id) ==
  /\ FreeSlot(p)
  /\ id \in ShownIds
  /\ procs' = [procs EXCEPT ![p] =
       [Idle EXCEPT !.kind = "delete", !.pc = "read", !.id = id]]
  /\ UNCHANGED <<guarded, stored, sysText, sysImage, windowVisible,
                 windowFocused, lastTextHash, lastImageHash, nextId, history,
                 cut, focusedTick>>

\* deleteClipboardEntry behind `await getEntries()`.
DeleteRead(p) ==
  /\ procs[p].kind = "delete" /\ procs[p].pc = "read"
  /\ procs' = [procs EXCEPT ![p].pc = "write",
                            ![p].entries = WithoutId(stored, procs[p].id)]
  /\ UNCHANGED <<guarded, stored, sysText, sysImage, windowVisible,
                 windowFocused, lastTextHash, lastImageHash, nextId, history,
                 cut, focusedTick>>

\* The setEntries of pinClipboardEntry or deleteClipboardEntry completes.
OpWrite(p) ==
  /\ procs[p].kind \in {"pin", "delete"} /\ procs[p].pc = "write"
  /\ setEntries(procs[p].entries)
  /\ procs' = [procs EXCEPT ![p] = Idle]
  /\ UNCHANGED <<guarded, sysText, sysImage, windowVisible, windowFocused,
                 lastTextHash, lastImageHash, nextId, history, focusedTick>>

\* getClipboardHistory() without a search text.
getClipboardHistory ==
  /\ history' = PinnedOf(stored) \o SortByTime(UnpinnedOf(stored))
  /\ UNCHANGED <<guarded, stored, sysText, sysImage, windowVisible,
                 windowFocused, lastTextHash, lastImageHash, procs, nextId,
                 cut, focusedTick>>

\* Something is copied: other content comes onto the system clipboard.
CopyText(text) ==
  /\ sysText # text
  /\ sysText' = text
  /\ UNCHANGED <<guarded, stored, sysImage, windowVisible, windowFocused,
                 lastTextHash, lastImageHash, procs, nextId, history, cut,
                 focusedTick>>

CopyImage(image) ==
  /\ sysImage # image
  /\ sysImage' = image
  /\ UNCHANGED <<guarded, stored, sysText, windowVisible, windowFocused,
                 lastTextHash, lastImageHash, procs, nextId, history, cut,
                 focusedTick>>

\* The launcher window is shown and focused, blurred or hidden.
WindowChanges(visible, focus) ==
  /\ <<visible, focus>> # <<windowVisible, windowFocused>>
  /\ focus => visible
  /\ windowVisible' = visible
  /\ windowFocused' = focus
  /\ UNCHANGED <<guarded, stored, sysText, sysImage, lastTextHash,
                 lastImageHash, procs, nextId, history, cut, focusedTick>>

\* ------------------------------------------- callers of the clipboard store

\* Activations in flight at one time where operations overlap.
MaxRacers == 2

\* Entries created where operations overlap.
MaxRaceIds == 2

RaceIds == 1 .. MaxRaceIds

EntryIds == 1 .. MaxIds

\* Another activation than p works on the entry id.
OtherCallFor(p, id) ==
  \E q \in ProcIds :
    q # p /\ procs[q].kind \in {"pin", "delete"} /\ procs[q].id = id

\* A call of pinClipboardEntry or deleteClipboardEntry for id is made: what
\* an earlier pinClipboardEntry for it resolved with no longer stands.
CallMadeFor(id) ==
  /\ pinnedAs' = [pinnedAs EXCEPT ![id] = "none"]
  /\ UNCHANGED deletedIds

\* The promise of the pinClipboardEntry or deleteClipboardEntry call in the
\* activation p resolves behind `await setEntries(entries)`.
Resolves(p) ==
  /\ deletedIds' = IF procs[p].kind = "delete"
                     THEN deletedIds \cup {procs[p].id}
                     ELSE deletedIds
  /\ pinnedAs' = IF procs[p].kind = "pin" /\ ~OtherCallFor(p, procs[p].id)
                   THEN [pinnedAs EXCEPT ![procs[p].id] =
                           IF procs[p].pinned THEN "pinned" ELSE "unpinned"]
                   ELSE pinnedAs

\* ------------------------------------- initClipboardManager, the poll timer

\* Calls of initClipboardManager in one run.
MaxInitCalls == 3

\* null in pollInterval
NoTimer == 0

\* The timer an initClipboardManager call sets carries the number of the call.
InitCallIds == 1 .. MaxInitCalls

\* initClipboardManager(window) up to `await getEntries()`: it returns at
\* once when pollInterval is set.
initClipboardManager ==
  /\ initCalls < MaxInitCalls
  /\ initCalls' = initCalls + 1
  /\ awaiting' = IF pollInterval # NoTimer THEN awaiting
                   ELSE awaiting \cup {initCalls + 1}
  /\ firedBy' = NoTimer
  /\ UNCHANGED <<pollInterval, timers, beforeStop, lastTextHash>>

\* The text hash initClipboardManager takes from the latest stored entry.
InitialTextHash ==
  IF Len(stored) > 0 /\ stored[1].type = "text" /\ Len(stored[1].text) > 0
    THEN hashString(stored[1].text)
    ELSE lastTextHash

\* The call c goes on behind `await getEntries()`: lastTextHash is set from
\* the latest entry and setInterval(pollClipboard, POLL_INTERVAL_MS) stored
\* in pollInterval.
InitResumes(c) ==
  /\ c \in awaiting
  /\ awaiting' = awaiting \ {c}
  /\ lastTextHash' = InitialTextHash
  /\ timers' = timers \cup {c}
  /\ pollInterval' = c
  /\ firedBy' = NoTimer
  /\ UNCHANGED <<initCalls, beforeStop>>

\* stopClipboardManager()
stopClipboardManager ==
  /\ timers' = IF pollInterval # NoTimer THEN timers \ {pollInterval} ELSE timers
  /\ pollInterval' = NoTimer
  /\ beforeStop' = initCalls
  /\ firedBy' = NoTimer
  /\ UNCHANGED <<awaiting, initCalls, lastTextHash>>

\* The timer t fires: it invokes pollClipboard.
TimerFires(t) ==
  /\ t \in timers
  /\ firedBy' = t
  /\ UNCHANGED <<pollInterval, timers, awaiting, initCalls, beforeStop,
                 lastTextHash>>

\* ---------------------------------------------------------------- setHotkey

HotkeyTypes == {"toggle-app", "clipboard"}

HotkeyValues == {"Ctrl+Space", "Alt+V"}

\* A type without a binding in the stored object.
NoHotkey == "undefined"

\* {}: what storage.get yields for a key never set, and the `?? {}` of
\* setHotkey.
NoHotkeys == [t \in HotkeyTypes |-> NoHotkey]

\* The objects storage can hold under 'hotkeys'.
HotkeyObjects == [HotkeyTypes -> HotkeyValues \cup {NoHotkey}]

NoHotkeyCall ==
  [pc |-> "none", type |-> "toggle-app", hotkey |-> "Ctrl+Space",
   readFailed |-> FALSE, setIssued |-> FALSE, hotkeys |-> NoHotkeys]

\* resolve() and reject(error) settle a pending Promise and do nothing to a
\* settled one.
Settle(state, how) == IF state = "pending" THEN how ELSE state

\* setHotkey(type, hotkey): the Promise is made and storage.get('hotkeys',
\* callback) is issued.
setHotkey(type, hotkey) ==
  /\ hotkeyCall.pc \in {"none", "done"}
  /\ hotkeyCall' = [NoHotkeyCall EXCEPT !.pc = "get", !.type = type,
                                        !.hotkey = hotkey]
  /\ promise' = "pending"
  /\ hotkeysBefore' = storedHotkeys
  /\ UNCHANGED storedHotkeys

\* The callback of storage.get runs, with an error and no data or with the
\* stored object: `if (error) reject(error)` does not return, so in both
\* cases hotkeys[type] = hotkey is set in `data ?? {}` and storage.set is
\* issued.
GetCallback(error) ==
  /\ hotkeyCall.pc = "get"
  /\ promise' = IF error THEN Settle(promise, "rejected") ELSE promise
  /\ hotkeyCall' =
       [hotkeyCall EXCEPT
          !.pc = "set",
          !.readFailed = error,
          !.setIssued = TRUE,
          !.hotkeys = [(IF error THEN NoHotkeys ELSE storedHotkeys)
                         EXCEPT ![hotkeyCall.type] = hotkeyCall.hotkey]]
  /\ UNCHANGED <<storedHotkeys, hotkeysBefore>>

\* The callback of storage.set runs: with an error nothing was stored and
\* the Promise is rejected, without one the object is stored and the
\* Promise resolved.
SetCallback(error) ==
  /\ hotkeyCall.pc = "set"
  /\ storedHotkeys' = IF error THEN storedHotkeys ELSE hotkeyCall.hotkeys
  /\ promise' = Settle(promise, IF error THEN "rejected" ELSE "resolved")
  /\ hotkeyCall' = [hotkeyCall EXCEPT !.pc = "done"]
  /\ UNCHANGED hotkeysBefore

\* ---------------------------------------------------------- TerminalSession

\* Shells spawned in one run.
MaxShells == 3

ShellIds == 1 .. MaxShells

\* null in this.ptyProcess
NoShell == 0

\* No write or resize in the latest step.
NoReach == [op |-> "none", shell |-> NoShell]

\* IPty.kill(): a running shell is told to exit; its exit event comes later.
Kill(status) == IF status = "running" THEN "exiting" ELSE status

\* The shells after the `if (this.ptyProcess) { this.stop() }` of start and
\* after the body of stop.
AfterStop ==
  IF ptyProcess # NoShell
    THEN [shells EXCEPT ![ptyProcess] = Kill(shells[ptyProcess])]
    ELSE shells

\* start(): a running shell is stopped, a new one spawned and its onData and
\* onExit handlers registered.
start ==
  /\ spawned < MaxShells
  /\ spawned' = spawned + 1
  /\ shells' = [AfterStop EXCEPT ![spawned + 1] = "running"]
  /\ ptyProcess' = spawned + 1
  /\ live' = spawned + 1
  /\ reached' = NoReach

\* stop()
stop ==
  /\ shells' = AfterStop
  /\ ptyProcess' = NoShell
  /\ live' = NoShell
  /\ reached' = NoReach
  /\ UNCHANGED spawned

\* write(data)
write ==
  /\ reached' = [op |-> "write", shell |-> ptyProcess]
  /\ UNCHANGED <<ptyProcess, shells, spawned, live>>

\* resize(cols, rows)
resize ==
  /\ reached' = [op |-> "resize", shell |-> ptyProcess]
  /\ UNCHANGED <<ptyProcess, shells, spawned, live>>

\* The shell s ends by itself (the user types exit, bash crashes).
ShellEnds(s) ==
  /\ shells[s] = "running"
  /\ shells' = [shells EXCEPT ![s] = "exiting"]
  /\ reached' = NoReach
  /\ UNCHANGED <<ptyProcess, spawned, live>>

\* The exit event of s is delivered: the handler start registered on s runs
\* `this.ptyProcess = null`.
onExit(s) ==
  /\ shells[s] = "exiting"
  /\ shells' = [shells EXCEPT ![s] = "exited"]
  /\ ptyProcess' = NoShell
  /\ reached' = NoReach
  /\ UNCHANGED <<spawned, live>>

\* isRunning()
isRunning == ptyProcess # NoShell

\* ------------------------------------------------------ App (with terminal)

\* The App with the modes search, terminal and exit-confirmation has the
\* state commandSearch, mode, selectedCommand, initialTerminalCommand and
\* isValidCommand; the rest of the state of the other App is not its own.
NotOfTerminalApp == UNCHANGED <<showClipboardManager, mounted, clipboard, copy>>

\* The keys of the model: Escape and one other key.
Keys == {"Escape", "a"}

NoKey == [key |-> "none", from |-> "search"]

\* The state of App as a record, for the handlers that run one after the
\* other in one event.
AppState ==
  [commandSearch |-> commandSearch, mode |-> mode,
   initialTerminalCommand |-> initialTerminalCommand]

\* handleInputKeyDown
handleInputKeyDown(st, key) ==
  IF key = "Escape"
    THEN IF st.mode = "terminal"
           THEN [st EXCEPT !.mode = "exit-confirmation"]
         ELSE IF st.mode = "exit-confirmation"
           THEN [st EXCEPT !.mode = "search", !.commandSearch = <<>>]
         ELSE [st EXCEPT !.commandSearch = <<>>]
    ELSE st

\* handleCancelExit
handleCancelExit(st) == [st EXCEPT !.mode = "terminal"]

\* handleConfirmExit
handleConfirmExit(st) ==
  [st EXCEPT !.mode = "search", !.commandSearch = <<>>,
             !.initialTerminalCommand = <<>>]

\* handleKeyDown, the keydown listener on window that the effect registered
\* when the mode was m.
handleKeyDown(st, key, m) ==
  IF m = "exit-confirmation"
    THEN IF key = "Escape" THEN handleConfirmExit(st) ELSE handleCancelExit(st)
    ELSE st

\* <Command> with its CommandInput is rendered.
InputRendered == mode = "search" /\ ~selectedCommand

\* The state after the handlers on the path of a keydown event have run:
\* the onKeyDown of CommandInput where it is rendered, then the listener on
\* window.
AfterKeyDown(key) ==
  handleKeyDown(IF InputRendered THEN handleInputKeyDown(AppState, key) ELSE AppState,
                key, mode)

\* A key is pressed in the launcher window.
KeyDown(key) ==
  /\ commandSearch' = AfterKeyDown(key).commandSearch
  /\ mode' = AfterKeyDown(key).mode
  /\ initialTerminalCommand' = AfterKeyDown(key).initialTerminalCommand
  /\ pressed' = [key |-> key, from |-> mode]
  /\ UNCHANGED <<selectedCommand, isValidCommand>>
  /\ NotOfTerminalApp

\* The item "Run in Terminal" is rendered.
TerminalItemRendered ==
  InputRendered /\ isValidCommand /\ Len(Trim(commandSearch)) > 0

\* handleRunInTerminal
handleRunInTerminal ==
  IF Len(Trim(commandSearch)) > 0
    THEN [AppState EXCEPT !.initialTerminalCommand = commandSearch,
                          !.mode = "terminal"]
    ELSE AppState

\* What a click on (or Enter on) the target runs, where the target is
\* rendered: the item "Run in Terminal", and the buttons Close and Cancel of
\* ExitConfirmation.
ClickTargets == {"Run in Terminal", "Close", "Cancel"}

Rendered(target) ==
  IF target = "Run in Terminal" THEN TerminalItemRendered
  ELSE mode = "exit-confirmation"

AfterClick(target) ==
  CASE target = "Run in Terminal" -> handleRunInTerminal
    [] target = "Close" -> handleConfirmExit(AppState)
    [] OTHER -> handleCancelExit(AppState)

Click(target) ==
  /\ Rendered(target)
  /\ commandSearch' = AfterClick(target).commandSearch
  /\ mode' = AfterClick(target).mode
  /\ initialTerminalCommand' = AfterClick(target).initialTerminalCommand
  /\ pressed' = NoKey
  /\ UNCHANGED <<selectedCommand, isValidCommand>>
  /\ NotOfTerminalApp

\* onValueChange={setCommandSearch}: the search text is edited.
setCommandSearch(x) ==
  /\ InputRendered
  /\ commandSearch # x
  /\ commandSearch' = x
  /\ pressed' = NoKey
  /\ UNCHANGED <<mode, selectedCommand, initialTerminalCommand, isValidCommand>>
  /\ NotOfTerminalApp

\* Commands opens a command (setSelectedCommand with a command), CommandPage
\* closes it (setSelectedCommand(null)).
setSelectedCommand(c) ==
  /\ mode = "search"
  /\ selectedCommand # c
  /\ selectedCommand' = c
  /\ pressed' = NoKey
  /\ UNCHANGED <<commandSearch, mode, initialTerminalCommand, isValidCommand>>
  /\ NotOfTerminalApp

\* useCommandValidator(commandSearch) reports another verdict.
setIsValidCommand(v) ==
  /\ isValidCommand # v
  /\ isValidCommand' = v
  /\ pressed' = NoKey
  /\ UNCHANGED <<commandSearch, mode, selectedCommand, initialTerminalCommand>>
  /\ NotOfTerminalApp

\* --------------------------------------------------------------- useTerminal

\* The 1000 of `updated.length > 1000`, scaled down.
MaxLines == 3

\* The value lineIdCounter may reach in one run.
MaxLineId == 6

\* Mounts of Terminal in one run; each registers a handleOutput listener that
\* is never removed.
MaxListeners == 2

\* \x1b
ESC == "ESC"

\* [0-9;]
AnsiParamSet == DigitSet \cup {";"}

\* The index behind the run of [0-9;] that starts at j.
RECURSIVE ParamsEnd(_, _)
ParamsEnd(s, j) ==
  IF j <= Len(s) /\ s[j] \in AnsiParamSet THEN ParamsEnd(s, j + 1) ELSE j

\* The length of the match of /\x1b\[[0-9;]*[a-zA-Z]/ at the start of s, 0
\* when there is none.
AnsiMatch(s) ==
  IF /\ Len(s) >= 3
     /\ s[1] = ESC
     /\ s[2] = "["
     /\ ParamsEnd(s, 3) <= Len(s)
     /\ s[ParamsEnd(s, 3)] \in LetterSet
    THEN ParamsEnd(s, 3)
    ELSE 0

\* .replace(/\x1b\[[0-9;]*[a-zA-Z]/g, '')
RECURSIVE RemoveAnsi(_)
RemoveAnsi(s) ==
  IF Len(s) = 0 THEN <<>>
  ELSE IF AnsiMatch(s) > 0 THEN RemoveAnsi(SubSeq(s, AnsiMatch(s) + 1, Len(s)))
  ELSE <<Head(s)>> \o RemoveAnsi(Tail(s))

\* [\x00-\x1f\x7f-\x9f] among the characters of the model: escape, line
\* feed, carriage return and tab.
ControlSet == {ESC, "\n", "\r", "\t"}

\* .replace(/[...]/g, '') for a set of characters
RECURSIVE RemoveAll(_, _)
RemoveAll(s, set) ==
  IF Len(s) = 0 THEN <<>>
  ELSE (IF Head(s) \in set THEN <<>> ELSE <<Head(s)>>) \o RemoveAll(Tail(s), set)

\* cleanData
cleanData(data) == RemoveAll(RemoveAll(RemoveAnsi(data), ControlSet), {"\r"})

\* The index of the first sep in s from i on, 0 when there is none.
RECURSIVE IndexOf(_, _, _)
IndexOf(s, sep, i) ==
  IF i > Len(s) THEN 0
  ELSE IF s[i] = sep THEN i
  ELSE IndexOf(s, sep, i + 1)

\* String.prototype.split with a one-character separator
RECURSIVE Split(_, _)
Split(s, sep) ==
  IF IndexOf(s, sep, 1) = 0 THEN <<s>>
  ELSE <<SubSeq(s, 1, IndexOf(s, sep, 1) - 1)>>
         \o Split(SubSeq(s, IndexOf(s, sep, 1) + 1, Len(s)), sep)

\* The contents of the lines handleOutput makes of data: none when the
\* cleaned data is blank.
LineContents(data) ==
  IF Len(Trim(cleanData(data))) = 0 THEN <<>> ELSE Split(cleanData(data), "\n")

\* newLines as the listener number k of n listeners makes them, each
\* listener taking ids from lineIdCounter in turn.
NewLines(data, k) ==
  [i \in 1 .. Len(LineContents(data)) |->
     [id |-> lineIdCounter + (k - 1) * Len(LineContents(data)) + (i - 1),
      content |-> LineContents(data)[i]]]

\* The whole of updated.
AllLines(updated) == updated

\* updated.length > 1000 ? updated.slice(updated.length - 1000) : updated
LastLines(updated) ==
  IF Len(updated) > MaxLines
    THEN SubSeq(updated, Len(updated) - MaxLines + 1, Len(updated))
    ELSE updated

NoOutput == [seen |-> FALSE, data |-> <<>>, made |-> <<>>]

\* A terminal-output event with data: every registered handleOutput runs,
\* in the order of registration; the setLines of the listener of the mounted
\* Terminal, the one registered last, changes lines.
handleOutput(data) ==
  /\ lineIdCounter + listeners * Len(LineContents(data)) <= MaxLineId
  /\ lineIdCounter' = lineIdCounter + listeners * Len(LineContents(data))
  /\ lines' = LastLines(lines \o NewLines(data, listeners))
  /\ appended' = appended \o NewLines(data, listeners)
  /\ lastOutput' = [seen |-> TRUE, data |-> data, made |-> NewLines(data, listeners)]
  /\ UNCHANGED <<listeners, termRunning>>

\* startTerminal
startTerminal ==
  /\ termRunning' = TRUE
  /\ lines' = <<>>
  /\ lineIdCounter' = 0
  /\ appended' = <<>>
  /\ lastOutput' = NoOutput
  /\ UNCHANGED listeners

\* stopTerminal
stopTerminal ==
  /\ termRunning' = FALSE
  /\ lastOutput' = NoOutput
  /\ UNCHANGED <<lines, lineIdCounter, listeners, appended>>

\* Terminal is unmounted and mounted again: useTerminal starts with new
\* state and registers one more listener; lineIdCounter is kept.
MountTerminal ==
  /\ listeners < MaxListeners
  /\ listeners' = listeners + 1
  /\ lines' = <<>>
  /\ termRunning' = FALSE
  /\ appended' = <<>>
  /\ lastOutput' = NoOutput
  /\ UNCHANGED lineIdCounter

\* ------------------------------------------------------- useCommandValidator

\* validateShellCommand requests in flight at one time.
MaxInFlight == 2

\* The command cache of the main process: the commands found on the PATH.
MainCache == {<<"l", "s">>}

\* No call held back, no answer yet.
NoCall == <<>>

\* The characters of s up to the first whitespace.
RECURSIVE UpToSpace(_)
UpToSpace(s) ==
  IF Len(s) = 0 \/ IsSpace(Head(s)) THEN <<>>
  ELSE <<Head(s)>> \o UpToSpace(Tail(s))

\* cmd.trim().split(/\s+/)[0]
firstToken(cmd) == UpToSpace(Trim(cmd))

\* isInCache of the hook and isKnownCommand of the main process
isKnownCommand(cmd, cache) ==
  IF Len(firstToken(cmd)) = 0 THEN FALSE ELSE firstToken(cmd) \in cache

\* The effect `[input, isInCache, validateCommand]` runs for input with the
\* cache given: first the cleanup of the run before (validateCommand.cancel),
\* then its body.
RunValidation(in, cache) ==
  /\ isValidCommand' = FALSE
  /\ isChecking' = (Len(Trim(in)) > 0 /\ isKnownCommand(in, cache))
  /\ debounced' = IF Len(Trim(in)) > 0 /\ isKnownCommand(in, cache)
                    THEN <<in>>
                    ELSE NoCall

\* App renders with another search text: the input of the hook changes.
InputChanges(x) ==
  /\ commandSearch # x
  /\ commandSearch' = x
  /\ RunValidation(x, commandCache)
  /\ UNCHANGED <<commandCache, inFlight, requested, validatedFor>>

\* getCommandCache answers, or onInitCommandCache delivers the commands:
\* setCommandCache gives isInCache another identity and the effect runs again.
CacheArrives ==
  /\ commandCache # MainCache
  /\ commandCache' = MainCache
  /\ RunValidation(commandSearch, MainCache)
  /\ UNCHANGED <<commandSearch, inFlight, requested, validatedFor>>

\* The 300 ms of the debounce pass: validateShellCommand(cmd) is called.
DebounceFires ==
  /\ debounced # NoCall
  /\ Len(inFlight) < MaxInFlight
  /\ inFlight' = Append(inFlight, debounced[1])
  /\ requested' = requested \cup {debounced[1]}
  /\ debounced' = NoCall
  /\ UNCHANGED <<commandSearch, isValidCommand, commandCache, isChecking,
                 validatedFor>>

\* The oldest request is answered: with the verdict of the main process, or
\* with an error.
Answered(ok) ==
  /\ Len(inFlight) > 0
  /\ isValidCommand' = (ok /\ isKnownCommand(Head(inFlight), MainCache))
  /\ isChecking' = FALSE
  /\ inFlight' = Tail(inFlight)
  /\ validatedFor' = <<Head(inFlight)>>
  /\ UNCHANGED <<commandSearch, commandCache, debounced, requested>>

\* ----------------------------------------------------------------- inputs

\* All concatenations of one string from each slot of a template.
RECURSIVE Expand(_)
Expand(t) ==
  IF Len(t) = 0 THEN {<<>>}
  ELSE {a \o b : a \in Head(t), b \in Expand(Tail(t))}

\* All concatenations of at most n strings of S.
RECURSIVE UpTo(_, _)
UpTo(S, n) ==
  IF n = 0 THEN {<<>>}
  ELSE UpTo(S, n - 1) \cup {a \o b : a \in S, b \in UpTo(S, n - 1)}

Literals == {<<Digits[i + 1]>> : i \in 0 .. MaxDigit}

Operands == Literals \cup {<<"e">>}

Signs == {<<"+">>, <<"-">>}

PowerOps == {<<"*", "*">>, <<"^">>}

TermOps == {<<"*">>, <<"/">>, <<"%">>}

BinOps == Signs \cup TermOps \cup {<<"*", "*">>}

Open == {<<"(">>}

Close == {<<")">>}

Comma == {<<",">>}

Blank == {<<" ">>, <<"\t">>}

FunctionNames ==
  { <<"s", "q", "r", "t">>, <<"s", "i", "n">>, <<"c", "o", "s">>,
    <<"t", "a", "n">>, <<"a", "b", "s">>, <<"r", "o", "u", "n", "d">>,
    <<"f", "l", "o", "o", "r">>, <<"c", "e", "i", "l">>, <<"l", "o", "g">>,
    <<"l", "o", "g", "1", "0">>, <<"e", "x", "p">>, <<"m", "i", "n">>,
    <<"m", "a", "x">> }

ConstantNames == {<<"p", "i">>, <<"e">>}

\* Identifiers in other spellings, and runs that are no identifier of the
\* grammar.
OtherWords ==
  { <<"P", "I">>, <<"P", "i">>, <<"E">>, <<"A", "b", "s">>, <<"M", "I", "N">>,
    <<"a", "b", "c">>, <<"x">>, <<"p">>, <<"s", "i">>, <<"l", "o", "g", "1">> }

Words == FunctionNames \cup ConstantNames \cup OtherWords

\* The lexemes of the short inputs ("#" stands for every character that
\* tokenize knows nothing about).
Lexemes ==
  { <<"1">>, <<"2">>, <<".">>, <<"+">>, <<"-">>, <<"*">>, <<"/">>, <<"^">>,
    <<"(">>, <<")">>, <<",">>, <<" ">>, <<"#">>, <<"e">> }

\* Longest short input, in lexemes.
MaxLexemes == 3

\* Longest run of digits and points among the generated number runs.
MaxRun == 5

Templates ==
  { <<Literals, BinOps, Literals, BinOps, Literals>>,
    <<Operands, BinOps, Operands>>,
    <<Open, Literals, BinOps, Literals, Close, BinOps, Literals>>,
    <<Literals, BinOps, Open, Literals, BinOps, Literals, Close>>,
    <<Open, Literals, BinOps, Literals, BinOps, Literals>>,
    <<Literals, BinOps, Literals, Close>>,
    <<Literals, Open, Literals, Close>>,
    <<Open, Literals, Close, Literals>>,
    <<Open, Open, Literals, Close, Close>>,
    <<Open, Open, Open, Literals, Close, Close, Close>>,
    <<Signs, Signs, Signs, Operands>>,
    <<Literals, Blank, {<<"*">>}, Blank, {<<"*">>, <<"^">>}, Blank, Literals>>,
    <<Blank, Literals, Blank, Literals, BinOps, Blank, Literals, Blank>>,
    <<Signs, Literals, PowerOps, Literals>>,
    <<Literals, PowerOps, Signs, Literals>>,
    <<Signs, Literals, PowerOps, Signs, Literals>>,
    <<Signs, Signs, Literals, PowerOps, Literals>>,
    <<Literals, PowerOps, Signs, Signs, Literals>>,
    <<Words, Open, Close>>,
    <<Words, Open, Operands, Close>>,
    <<Words, Open, Literals, Comma, Literals, Close>>,
    <<Words, Open, Literals, Comma, Literals>>,
    <<Words, Open, Literals, Comma, Close>>,
    <<Words, Literals>>,
    <<Literals, Words, Literals>>,
    <<Words, Words>>,
    <<FunctionNames, Open, Literals, TermOps, Literals, Comma, Literals, Close>>,
    <<FunctionNames, Open, Literals, Comma, Literals, Comma, Literals, Close>>,
    <<FunctionNames, Open, Signs, Literals, Close, BinOps, Literals>>,
    <<Literals, BinOps, FunctionNames, Open, Literals, Close>> }

Inputs ==
  UpTo(Lexemes, MaxLexemes)
    \cup UpTo({<<"1">>, <<"2">>, <<".">>}, MaxRun)
    \cup UNION {Expand(t) : t \in Templates}

\* The lexemes of the inputs of a sequence of calls: blank, evaluable,
\* untokenizable ("#") and unparsable ones.
CallLexemes == {<<"1">>, <<"+">>, <<" ">>, <<"#">>}

\* Longest input of a sequence of calls, in lexemes.
MaxCallLexemes == 2

\* The lexemes of the inputs of looksLikeMathExpression.
LookLexemes ==
  { <<"1">>, <<".">>, <<"+">>, <<"(">>, <<")">>, <<" ">>, <<"_">>, <<"x">>,
    <<"e">>, <<"P", "i">>, <<"s", "i", "n">>, <<"l", "o", "g">>,
    <<"l", "o", "g", "1", "0">>, <<"#">> }

\* Longest input of looksLikeMathExpression, in lexemes.
MaxLookLexemes == 3

LookInputs == UpTo(LookLexemes, MaxLookLexemes)

\* The search texts typed into the launcher.
SearchTexts ==
  { <<>>, <<" ">>, <<"1", "+", "1">>, <<"1", "+">>, <<"1", "2">>,
    <<"2", "*", "(", "1", "+", "2", ")">>, <<"1", "/", "0">>,
    <<"1", "/", "2">>, <<"(", "(", "(", "1", ")", ")", ")">>,
    <<"c", "b">>, <<"l", "s">>, <<"e", "x", "p", "(", "0", ")">>,
    <<"2", "p", "i">> }

CallInputs ==
  UpTo(CallLexemes, MaxCallLexemes)
    \cup { <<"(", "1", "+", "2", "*", "3">>, <<"1", "/", "0">>,
           <<"2", "*", "*", "3", "*", "*", "2">>, <<"(", "1", ")">> }

\* The data of terminal-output events: texts, line feeds and ANSI escape
\* sequences.
OutputData ==
  { <<"a">>, <<"b">>, <<"a", "\n", "b">>, <<"a", "\r", "\n">>, <<"\n">>,
    <<" ">>, <<ESC, "[", "1", ";", "3", "m", "a">>, <<ESC, "[", "a">> }

\* The inputs of useCommandValidator.
ValidatorInputs ==
  { <<>>, <<" ">>, <<"l", "s">>, <<"l", "s", " ", "-", "a">>, <<" ", "l", "s">>,
    <<"l", "s", "x">>, <<"x">> }

\* ---------------------------------------------------------- specifications

\* The calculator module as loaded (`let pos = 0`, `let tokens = []`), no
\* call made.
CalcLoaded ==
  /\ tokens = <<>>
  /\ pos = 0
  /\ result = Null
  /\ divZero = FALSE
  /\ entry = [tokens |-> <<>>, pos |-> 0]
  /\ called = FALSE

CalcIdle == input = <<>> /\ CalcLoaded

\* No call of looksLikeMathExpression made.
LooksIdle == lookInput = <<>> /\ looks = FALSE /\ looked = FALSE

\* App as first rendered: useState('') and so on; the first render has
\* called evaluateMathExpression('') and looksLikeMathExpression('').
AppIdle ==
  /\ commandSearch = <<>>
  /\ mode = "search"
  /\ selectedCommand = FALSE
  /\ showClipboardManager = FALSE
  /\ initialTerminalCommand = <<>>
  /\ isValidCommand = FALSE
  /\ mounted = TRUE
  /\ clipboard = Null
  /\ copy = NoCopy

\* The clipboard manager with nothing stored, nothing on the clipboard and
\* no activation in flight.
ClipIdle ==
  /\ guarded = TRUE
  /\ stored = <<>>
  /\ sysText = <<>>
  /\ sysImage = <<>>
  /\ windowVisible = FALSE
  /\ windowFocused = FALSE
  /\ lastTextHash = NullHash
  /\ lastImageHash = NullHash
  /\ procs = NoProcs(MaxProcs)
  /\ nextId = 1
  /\ history = <<>>
  /\ cut = 0
  /\ focusedTick = [read |-> FALSE, hashes |-> FALSE, added |-> FALSE]

\* A TerminalSession as constructed.
TermIdle ==
  /\ ptyProcess = NoShell
  /\ shells = [s \in ShellIds |-> "none"]
  /\ spawned = 0
  /\ live = NoShell
  /\ reached = NoReach

\* No key pressed yet.
KeyIdle == pressed = NoKey

\* useTerminal as first mounted.
OutIdle ==
  /\ lines = <<>>
  /\ lineIdCounter = 0
  /\ listeners = 1
  /\ termRunning = FALSE
  /\ appended = <<>>
  /\ lastOutput = NoOutput

\* useCommandValidator after the first render with an empty input.
ValidatorIdle ==
  /\ commandCache = {}
  /\ isChecking = FALSE
  /\ debounced = NoCall
  /\ inFlight = <<>>
  /\ requested = {}
  /\ validatedFor = NoCall

\* The clipboard manager before initClipboardManager is called.
TimerIdle ==
  /\ pollInterval = NoTimer
  /\ timers = {}
  /\ awaiting = {}
  /\ initCalls = 0
  /\ beforeStop = 0
  /\ firedBy = NoTimer

\* No call of the clipboard store has resolved.
ResolvedIdle ==
  /\ deletedIds = {}
  /\ pinnedAs = [id \in EntryIds |-> "none"]

\* setHotkey has not been called and nothing is stored under 'hotkeys'.
HotkeyIdle ==
  /\ storedHotkeys = NoHotkeys
  /\ hotkeyCall = NoHotkeyCall
  /\ promise = "none"
  /\ hotkeysBefore = NoHotkeys

\* What a specification of one part leaves alone.
CalcOnly == UNCHANGED <<looksVars, appVars, clipVars, termVars, keyVars, outVars, validatorVars, timerVars, resolvedVars, hotkeyVars>>

LooksOnly == UNCHANGED <<calcVars, appVars, clipVars, termVars, keyVars, outVars, validatorVars, timerVars, resolvedVars, hotkeyVars>>

LauncherOnly == UNCHANGED <<clipVars, termVars, keyVars, outVars, validatorVars, timerVars, resolvedVars, hotkeyVars>>

ClipOnly == UNCHANGED <<calcVars, looksVars, appVars, termVars, keyVars, outVars, validatorVars, timerVars, resolvedVars, hotkeyVars>>

TermOnly == UNCHANGED <<calcVars, looksVars, appVars, clipVars, keyVars, outVars, validatorVars, timerVars, resolvedVars, hotkeyVars>>

TerminalAppOnly == UNCHANGED <<calcVars, looksVars, clipVars, termVars, outVars, validatorVars, timerVars, resolvedVars, hotkeyVars>>

OutputOnly == UNCHANGED <<calcVars, looksVars, appVars, clipVars, termVars, keyVars, validatorVars, timerVars, resolvedVars, hotkeyVars>>

HotkeyOnly == UNCHANGED <<calcVars, looksVars, appVars, clipVars, termVars, keyVars, outVars, validatorVars, timerVars, resolvedVars>>

RaceOnly ==
  UNCHANGED <<calcVars, looksVars, appVars, termVars, keyVars, outVars,
              validatorVars, timerVars, hotkeyVars>>

TimerOnly ==
  UNCHANGED <<calcVars, looksVars, appVars, termVars, keyVars, outVars,
              validatorVars, resolvedVars, hotkeyVars, guarded, stored, sysText, sysImage, windowVisible,
              windowFocused, lastImageHash, procs, nextId, history, cut,
              focusedTick>>

ValidatorOnly ==
  UNCHANGED <<calcVars, looksVars, clipVars, termVars, keyVars, outVars, timerVars, resolvedVars, hotkeyVars, mode,
              selectedCommand, showClipboardManager, initialTerminalCommand,
              mounted, clipboard, copy>>

\* One call on any input: the module as loaded and the argument the call is
\* about to be made with.
Init ==
  /\ input \in Inputs
  /\ CalcLoaded
  /\ LooksIdle
  /\ AppIdle
  /\ HotkeyIdle
  /\ ResolvedIdle
  /\ TimerIdle
  /\ ValidatorIdle
  /\ OutIdle
  /\ KeyIdle
  /\ TermIdle
  /\ ClipIdle

Call ==
  /\ ~called
  /\ evaluateMathExpression(input)
  /\ CalcOnly

Next == Call

Spec == Init /\ [][Next]_vars

\* Any sequence of calls: each call finds the module state the call before
\* it left.
CallsInit == CalcIdle /\ LooksIdle /\ AppIdle /\ HotkeyIdle /\ ResolvedIdle /\ TimerIdle /\ ValidatorIdle /\ OutIdle /\ KeyIdle /\ TermIdle /\ ClipIdle

CallsNext ==
  /\ \E x \in CallInputs : evaluateMathExpression(x)
  /\ CalcOnly

CallsSpec == CallsInit /\ [][CallsNext]_vars

\* The launcher with the calculator: any sequence of user actions, each
\* followed by the render of the new state.
LauncherInit ==
  /\ CalcIdle
  /\ LooksIdle
  /\ AppIdle
  /\ HotkeyIdle
  /\ ResolvedIdle
  /\ TimerIdle
  /\ ValidatorIdle
  /\ OutIdle
  /\ KeyIdle
  /\ TermIdle
  /\ ClipIdle

LauncherNext ==
  \/ \E x \in SearchTexts : TypeSearch(x) /\ Render(commandSearch') /\ LauncherOnly
  \/ SelectCalculatorItem /\ Render(commandSearch') /\ LauncherOnly
  \/ CopyWhileInvalid /\ Render(commandSearch') /\ LauncherOnly
  \/ InputEscape /\ Render(commandSearch') /\ LauncherOnly
  \/ WindowEscape /\ Render(commandSearch') /\ LauncherOnly
  \/ SelectClipboardManager /\ Render(commandSearch') /\ LauncherOnly
  \/ CloseClipboardManager /\ Render(commandSearch') /\ LauncherOnly
  \/ RunInKitty /\ Render(commandSearch') /\ LauncherOnly
  \/ \E c \in BOOLEAN : SetSelectedCommand(c) /\ Render(commandSearch') /\ LauncherOnly
  \/ \E v \in BOOLEAN : ValidatorReports(v) /\ Render(commandSearch') /\ LauncherOnly

LauncherSpec == LauncherInit /\ [][LauncherNext]_vars

\* The store of the clipboard manager after initClipboardManager on an empty
\* store, with the launcher window hidden: timer ticks, calls of
\* pinClipboardEntry, deleteClipboardEntry and getClipboardHistory, and copies,
\* in any order; each async function advances from one await on the storage to
\* the next.
ClipInit ==
  /\ CalcIdle
  /\ LooksIdle
  /\ AppIdle
  /\ HotkeyIdle
  /\ ResolvedIdle
  /\ TimerIdle
  /\ ValidatorIdle
  /\ OutIdle
  /\ KeyIdle
  /\ TermIdle
  /\ ClipIdle

ClipNext ==
  \/ \E p \in ProcIds : Tick(p) /\ ClipOnly
  \/ \E p \in ProcIds : DupCheck(p) /\ ClipOnly
  \/ \E p \in ProcIds : AddRead(p) /\ ClipOnly
  \/ \E p \in ProcIds : AddWrite(p) /\ ClipOnly
  \/ \E p \in ProcIds, id \in 1 .. MaxIds, b \in BOOLEAN :
       CallPin(p, id, b) /\ ClipOnly
  \/ \E p \in ProcIds : PinRead(p) /\ ClipOnly
  \/ \E p \in ProcIds, id \in 1 .. MaxIds : CallDelete(p, id) /\ ClipOnly
  \/ \E p \in ProcIds : DeleteRead(p) /\ ClipOnly
  \/ \E p \in ProcIds : OpWrite(p) /\ ClipOnly
  \/ getClipboardHistory /\ ClipOnly
  \/ \E text \in ClipTexts : CopyText(text) /\ ClipOnly
  \/ \E image \in ClipImages : CopyImage(image) /\ ClipOnly

ClipSpec == ClipInit /\ [][ClipNext]_vars

\* Polling with either pollClipboard of the repository while the launcher
\* window is shown, focused, blurred and hidden and things are copied.
PollInit ==
  /\ CalcIdle
  /\ LooksIdle
  /\ AppIdle
  /\ HotkeyIdle
  /\ ResolvedIdle
  /\ TimerIdle
  /\ ValidatorIdle
  /\ OutIdle
  /\ KeyIdle
  /\ TermIdle
  /\ guarded \in BOOLEAN
  /\ stored = <<>>
  /\ sysText = <<>>
  /\ sysImage = <<>>
  /\ windowVisible = FALSE
  /\ windowFocused = FALSE
  /\ lastTextHash = NullHash
  /\ lastImageHash = NullHash
  /\ procs = NoProcs(MaxProcs)
  /\ nextId = 1
  /\ history = <<>>
  /\ cut = 0
  /\ focusedTick = [read |-> FALSE, hashes |-> FALSE, added |-> FALSE]

PollNext ==
  \/ \E p \in ProcIds : Tick(p) /\ ClipOnly
  \/ \E p \in ProcIds : DupCheck(p) /\ ClipOnly
  \/ \E p \in ProcIds : AddRead(p) /\ ClipOnly
  \/ \E p \in ProcIds : AddWrite(p) /\ ClipOnly
  \/ \E text \in ClipTexts : CopyText(text) /\ ClipOnly
  \/ \E image \in ClipImages : CopyImage(image) /\ ClipOnly
  \/ \E v \in BOOLEAN, f \in BOOLEAN : WindowChanges(v, f) /\ ClipOnly

PollSpec == PollInit /\ [][PollNext]_vars

\* One TerminalSession: calls of start, stop, write and resize, shells that
\* end and exit events that are delivered, in any order.
TermInit ==
  /\ CalcIdle
  /\ LooksIdle
  /\ AppIdle
  /\ HotkeyIdle
  /\ ResolvedIdle
  /\ TimerIdle
  /\ ValidatorIdle
  /\ OutIdle
  /\ KeyIdle
  /\ ClipIdle
  /\ TermIdle

TermNext ==
  \/ start /\ TermOnly
  \/ stop /\ TermOnly
  \/ write /\ TermOnly
  \/ resize /\ TermOnly
  \/ \E s \in ShellIds : ShellEnds(s) /\ TermOnly
  \/ \E s \in ShellIds : onExit(s) /\ TermOnly

TermSpec == TermInit /\ [][TermNext]_vars

\* The App with the modes search, terminal and exit-confirmation: edits of
\* the search text, verdicts of the validator, commands opened and closed,
\* clicks and key presses, in any order.
TerminalAppInit ==
  /\ CalcIdle
  /\ LooksIdle
  /\ AppIdle
  /\ HotkeyIdle
  /\ ResolvedIdle
  /\ TimerIdle
  /\ ValidatorIdle
  /\ OutIdle
  /\ KeyIdle
  /\ ClipIdle
  /\ TermIdle

TerminalAppNext ==
  \/ \E key \in Keys : KeyDown(key) /\ TerminalAppOnly
  \/ \E target \in ClickTargets : Click(target) /\ TerminalAppOnly
  \/ \E x \in SearchTexts \cup {<<>>} : setCommandSearch(x) /\ TerminalAppOnly
  \/ \E c \in BOOLEAN : setSelectedCommand(c) /\ TerminalAppOnly
  \/ \E v \in BOOLEAN : setIsValidCommand(v) /\ TerminalAppOnly

TerminalAppSpec == TerminalAppInit /\ [][TerminalAppNext]_vars

\* useTerminal: terminal-output events, startTerminal, stopTerminal and
\* mounts of Terminal, in any order.
OutputInit ==
  /\ CalcIdle
  /\ LooksIdle
  /\ AppIdle
  /\ HotkeyIdle
  /\ ResolvedIdle
  /\ TimerIdle
  /\ ValidatorIdle
  /\ OutIdle
  /\ ClipIdle
  /\ TermIdle
  /\ KeyIdle

OutputNext ==
  \/ \E data \in OutputData : handleOutput(data) /\ OutputOnly
  \/ startTerminal /\ OutputOnly
  \/ stopTerminal /\ OutputOnly
  \/ MountTerminal /\ OutputOnly

OutputSpec == OutputInit /\ [][OutputNext]_vars

\* useCommandValidator: the input changes, the cache arrives, the debounce
\* fires and requests are answered, in any order.
ValidatorInit ==
  /\ CalcIdle
  /\ LooksIdle
  /\ AppIdle
  /\ HotkeyIdle
  /\ ResolvedIdle
  /\ TimerIdle
  /\ ValidatorIdle
  /\ ClipIdle
  /\ TermIdle
  /\ KeyIdle
  /\ OutIdle

ValidatorNext ==
  \/ \E x \in ValidatorInputs : InputChanges(x) /\ ValidatorOnly
  \/ CacheArrives /\ ValidatorOnly
  \/ DebounceFires /\ ValidatorOnly
  \/ \E ok \in BOOLEAN : Answered(ok) /\ ValidatorOnly

ValidatorSpec == ValidatorInit /\ [][ValidatorNext]_vars

\* The poll timer: calls of initClipboardManager that go on behind their
\* await in any order, calls of stopClipboardManager, and timers that fire.
TimerInit ==
  /\ CalcIdle
  /\ LooksIdle
  /\ AppIdle
  /\ HotkeyIdle
  /\ ResolvedIdle
  /\ TimerIdle
  /\ ClipIdle
  /\ TermIdle
  /\ KeyIdle
  /\ OutIdle
  /\ ValidatorIdle

TimerNext ==
  \/ initClipboardManager /\ TimerOnly
  \/ \E c \in InitCallIds : InitResumes(c) /\ TimerOnly
  \/ stopClipboardManager /\ TimerOnly
  \/ \E t \in InitCallIds : TimerFires(t) /\ TimerOnly

TimerSpec == TimerInit /\ [][TimerNext]_vars

\* The clipboard store with operations that overlap: images are copied,
\* timer ticks add them, and pinClipboardEntry and deleteClipboardEntry are
\* called for entries the renderer shows, two activations at a time, each
\* advancing from one await on the storage to the next.
RaceInit ==
  /\ CalcIdle
  /\ LooksIdle
  /\ AppIdle
  /\ HotkeyIdle
  /\ ResolvedIdle
  /\ TimerIdle
  /\ TermIdle
  /\ KeyIdle
  /\ OutIdle
  /\ ValidatorIdle
  /\ guarded = TRUE
  /\ stored = <<>>
  /\ sysText = <<>>
  /\ sysImage = <<>>
  /\ windowVisible = FALSE
  /\ windowFocused = FALSE
  /\ lastTextHash = NullHash
  /\ lastImageHash = NullHash
  /\ procs = NoProcs(MaxRacers)
  /\ nextId = 1
  /\ history = <<>>
  /\ cut = 0
  /\ focusedTick = [read |-> FALSE, hashes |-> FALSE, added |-> FALSE]

RaceNext ==
  \/ \E p \in ProcIds :
       nextId <= MaxRaceIds /\ Tick(p) /\ UNCHANGED resolvedVars /\ RaceOnly
  \/ \E p \in ProcIds : AddRead(p) /\ UNCHANGED resolvedVars /\ RaceOnly
  \/ \E p \in ProcIds : AddWrite(p) /\ UNCHANGED resolvedVars /\ RaceOnly
  \/ \E p \in ProcIds, id \in RaceIds, b \in BOOLEAN :
       CallPin(p, id, b) /\ CallMadeFor(id) /\ RaceOnly
  \/ \E p \in ProcIds : PinRead(p) /\ UNCHANGED resolvedVars /\ RaceOnly
  \/ \E p \in ProcIds, id \in RaceIds :
       CallDelete(p, id) /\ CallMadeFor(id) /\ RaceOnly
  \/ \E p \in ProcIds : DeleteRead(p) /\ UNCHANGED resolvedVars /\ RaceOnly
  \/ \E p \in ProcIds : OpWrite(p) /\ Resolves(p) /\ RaceOnly
  \/ getClipboardHistory /\ UNCHANGED resolvedVars /\ RaceOnly
  \/ \E image \in ClipImages : CopyImage(image) /\ UNCHANGED resolvedVars /\ RaceOnly

RaceSpec == RaceInit /\ [][RaceNext]_vars

\* Calls of setHotkey, one at a time, on any stored bindings, with storage
\* answering each get and set with or without an error.
HotkeyInit ==
  /\ CalcIdle
  /\ LooksIdle
  /\ AppIdle
  /\ ResolvedIdle
  /\ TimerIdle
  /\ TermIdle
  /\ KeyIdle
  /\ OutIdle
  /\ ValidatorIdle
  /\ ClipIdle
  /\ storedHotkeys \in HotkeyObjects
  /\ hotkeyCall = NoHotkeyCall
  /\ promise = "none"
  /\ hotkeysBefore = storedHotkeys

HotkeyNext ==
  \/ \E type \in HotkeyTypes, hotkey \in HotkeyValues :
       setHotkey(type, hotkey) /\ HotkeyOnly
  \/ \E error \in BOOLEAN : GetCallback(error) /\ HotkeyOnly
  \/ \E error \in BOOLEAN : SetCallback(error) /\ HotkeyOnly

HotkeySpec == HotkeyInit /\ [][HotkeyNext]_vars

\* One call of looksLikeMathExpression on any input.
LooksInit ==
  /\ CalcIdle
  /\ lookInput \in LookInputs
  /\ looks = FALSE
  /\ looked = FALSE
  /\ AppIdle
  /\ HotkeyIdle
  /\ ResolvedIdle
  /\ TimerIdle
  /\ ValidatorIdle
  /\ OutIdle
  /\ KeyIdle
  /\ TermIdle
  /\ ClipIdle

Look ==
  /\ ~looked
  /\ looksLikeMathExpression(lookInput)
  /\ LooksOnly

LooksNext == Look

LooksSpec == LooksInit /\ [][LooksNext]_vars

\* ------------------------------------------------------------- properties

\* What evaluateMathExpression makes of a value: the value when it is a
\* finite number and `null` otherwise.
Shown(v) == IF IsFin(v) THEN v ELSE Null

\* The input without its whitespace.
Stripped(s) == SelectSeq(s, LAMBDA c : c \notin SpaceSet)

\* The maximal runs of characters of a class in s.
MaxRuns(s, class) ==
  { SubSeq(s, i, j) : <<i, j>> \in
      { ij \in (1 .. Len(s)) \X (1 .. Len(s)) :
          /\ ij[1] <= ij[2]
          /\ \A k \in ij[1] .. ij[2] : s[k] \in class
          /\ (ij[1] = 1 \/ s[ij[1] - 1] \notin class)
          /\ (ij[2] = Len(s) \/ s[ij[2] + 1] \notin class) } }

\* The grammar of the calculator as a recogniser that follows every
\* derivation: the sets of token counts at which an expr, term, factor,
\* power, atom or argument list starting behind the first i tokens can end.
\*   expr   := term (('+' | '-') term)*
\*   term   := factor (('*' | '/' | '%') factor)*
\*   factor := power ('**' factor)?
\*   power  := ('+' | '-') power | atom
\*   atom   := number | '(' expr ')' | func '(' expr (',' expr)* ')'
TokenAt(t, j) == IF j < Len(t) THEN t[j + 1] ELSE [type |-> "end"]

IsOpAt(t, j, ops) == TokenAt(t, j).type = "op" /\ TokenAt(t, j).value \in ops

RECURSIVE ExprEnds(_, _), ExprMore(_, _), TermEnds(_, _), TermMore(_, _),
          FactorEnds(_, _), PowerEnds(_, _), AtomEnds(_, _), ArgsEnds(_, _)

ExprEnds(t, i) == ExprMore(t, TermEnds(t, i))

ExprMore(t, S) ==
  S \cup UNION { ExprMore(t, TermEnds(t, j + 1)) :
                   j \in {k \in S : IsOpAt(t, k, {"+", "-"})} }

TermEnds(t, i) == TermMore(t, FactorEnds(t, i))

TermMore(t, S) ==
  S \cup UNION { TermMore(t, FactorEnds(t, j + 1)) :
                   j \in {k \in S : IsOpAt(t, k, {"*", "/", "%"})} }

FactorEnds(t, i) ==
  LET P == PowerEnds(t, i)
  IN P \cup UNION { FactorEnds(t, j + 1) : j \in {k \in P : IsOpAt(t, k, {"**"})} }

PowerEnds(t, i) ==
  (IF IsOpAt(t, i, {"+", "-"}) THEN PowerEnds(t, i + 1) ELSE {}) \cup AtomEnds(t, i)

AtomEnds(t, i) ==
  IF TokenAt(t, i).type = "number" THEN {i + 1}
  ELSE IF TokenAt(t, i).type = "lparen"
    THEN {j + 1 : j \in {k \in ExprEnds(t, i + 1) : TokenAt(t, k).type = "rparen"}}
  ELSE IF TokenAt(t, i).type = "func" /\ TokenAt(t, i + 1).type = "lparen"
    THEN {j + 1 : j \in {k \in ArgsEnds(t, i + 2) : TokenAt(t, k).type = "rparen"}}
  ELSE {}

ArgsEnds(t, i) ==
  LET E == ExprEnds(t, i)
  IN E \cup UNION { ArgsEnds(t, j + 1) : j \in {k \in E : TokenAt(t, k).type = "comma"} }

\* The token list is one expr of the grammar, with no token left over.
IsExpression(t) == Len(t) \in ExprEnds(t, 0)

\* The token list is n number tokens alternating with n - 1 other tokens.
IsNumberAt(t, i) == i \in DOMAIN t /\ t[i].type = "number"

\* The value of `x o y` in arithmetic: undefined (NaN) for a zero divisor.
Apply(o, x, y) ==
  CASE o = "+" -> JsAdd(x, y)
    [] o = "-" -> JsSub(x, y)
    [] o = "*" -> JsMul(x, y)
    [] o = "/" -> IF IsZero(y) THEN NaN ELSE JsDiv(x, y)
    [] o = "%" -> IF IsZero(y) THEN NaN ELSE JsMod(x, y)
    [] o = "**" -> MathPow(x, y)

AddOps == {"+", "-"}

MulOps == {"*", "/", "%"}

ArithOps == AddOps \cup MulOps

AllOps == ArithOps \cup {"**"}

IsOpTok(t, i, ops) == i \in DOMAIN t /\ t[i].type = "op" /\ t[i].value \in ops

\* C1, as claimed: whatever the input and its nesting, a call returns a
\* finite number or null: it never returns NaN, +Infinity or -Infinity and
\* never throws.
C1_FiniteOrNull == called => (result = Null \/ IsFin(result))

\* C2: a call returns a number only when the tokens are exactly one expr of
\* the grammar and the parse consumed every token; with a token left over
\* behind a complete expression, or an atom or closing parenthesis missing,
\* it returns null.
C2_WholeExpressionOnly ==
  called /\ result \notin {Null, RangeError}
    => IsExpression(tokens) /\ pos = Len(tokens)

\* C2, the case: the parse of an expression stopped in front of a leftover
\* token and the call returned null.
C2_Witness ==
  /\ called
  /\ 0 < pos
  /\ pos < Len(tokens)
  /\ pos \in ExprEnds(tokens, 0)
  /\ result = Null

\* C3, as claimed: when the tokens are a well-formed expression in whose
\* evaluation a `/` or `%` had a zero right operand, a call that returns
\* returns null.
C3_ZeroDivisionGivesNull ==
  called /\ divZero /\ IsExpression(tokens) /\ result # RangeError
    => result = Null

\* C4: three numbers joined by two of + - * / % evaluate with * / % binding
\* tighter than + - and with equal levels grouped from the left; in
\* parentheses the inner operation is done first.  The result is that value,
\* or null when the value is undefined or out of range.
C4_PrecedenceAndGrouping ==
  called =>
    /\ ( /\ Len(tokens) = 5
         /\ IsNumberAt(tokens, 1) /\ IsOpTok(tokens, 2, ArithOps)
         /\ IsNumberAt(tokens, 3) /\ IsOpTok(tokens, 4, ArithOps)
         /\ IsNumberAt(tokens, 5)
         => result =
              Shown(IF tokens[2].value \in AddOps /\ tokens[4].value \in MulOps
                      THEN Apply(tokens[2].value, tokens[1].value,
                                 Apply(tokens[4].value, tokens[3].value, tokens[5].value))
                      ELSE Apply(tokens[4].value,
                                 Apply(tokens[2].value, tokens[1].value, tokens[3].value),
                                 tokens[5].value)) )
    /\ ( /\ Len(tokens) = 7
         /\ tokens[1].type = "lparen"
         /\ IsNumberAt(tokens, 2) /\ IsOpTok(tokens, 3, AllOps)
         /\ IsNumberAt(tokens, 4) /\ tokens[5].type = "rparen"
         /\ IsOpTok(tokens, 6, AllOps) /\ IsNumberAt(tokens, 7)
         => result =
              Shown(Apply(tokens[6].value,
                          Apply(tokens[3].value, tokens[2].value, tokens[4].value),
                          tokens[7].value)) )
    /\ ( /\ Len(tokens) = 7
         /\ IsNumberAt(tokens, 1) /\ IsOpTok(tokens, 2, AllOps)
         /\ tokens[3].type = "lparen"
         /\ IsNumberAt(tokens, 4) /\ IsOpTok(tokens, 5, AllOps)
         /\ IsNumberAt(tokens, 6) /\ tokens[7].type = "rparen"
         => result =
              Shown(Apply(tokens[2].value, tokens[1].value,
                          Apply(tokens[5].value, tokens[4].value, tokens[6].value))) )

\* C4, the case: 1-2-2 has been evaluated to -3, the value of (1-2)-2.
C4_Witness ==
  /\ called
  /\ input = <<"1", "-", "2", "-", "2">>
  /\ result = Num(-3)

\* The lower-cased identifiers of an input: of every maximal run of letters
\* and digits, the part from its first letter on.
FirstLetter(run) == CHOOSE k \in 1 .. Len(run) + 1 :
  /\ k = Len(run) + 1 \/ run[k] \in LetterSet
  /\ \A m \in 1 .. k - 1 : run[m] \notin LetterSet

Identifiers(s) ==
  { LowerName(SubSeq(run, FirstLetter(run), Len(run))) :
      run \in {r \in MaxRuns(Stripped(s), AlnumSet) : FirstLetter(r) <= Len(r)} }

Whitelist == {MATH_FUNCTIONS[i] : i \in DOMAIN MATH_FUNCTIONS}

\* C5: an input with an identifier that is, lower-cased, neither pi nor e nor
\* a whitelisted function name gives no tokens and null; a single identifier
\* is rejected only then; and every function token names a whitelisted
\* function, so callMathFunc never takes its default branch.
C5_ClosedIdentifiers ==
  called =>
    /\ (\E n \in Identifiers(input) : n \notin Whitelist \cup {"pi", "e"})
         => tokens = <<>> /\ result = Null
    /\ ( /\ tokens = <<>>
         /\ Stripped(input) # <<>>
         /\ MaxRuns(Stripped(input), AlnumSet) = {Stripped(input)}
         /\ Stripped(input)[1] \in LetterSet
         => \E n \in Identifiers(input) : n \notin Whitelist \cup {"pi", "e"} )
    /\ \A i \in DOMAIN tokens :
         tokens[i].type = "func" => tokens[i].name \in Whitelist

\* C5, the case: an input with a letter run outside the whitelist, followed
\* by a parenthesised argument, has been rejected by the tokenizer.
C5_Witness ==
  /\ called
  /\ \E n \in Identifiers(input) : n \notin Whitelist \cup {"pi", "e"}
  /\ \E i \in DOMAIN input : input[i] = "("
  /\ tokens = <<>>
  /\ result = Null

\* The number of points in a run of digits and points.
Points(run) == Len(SelectSeq(run, LAMBDA c : c = "."))

\* C6, as claimed: an input with a maximal run of digits and points that has
\* two or more points, or no digit, gives no tokens and null.
C6_MalformedRunAborts ==
  called /\ (\E run \in MaxRuns(Stripped(input), DigitOrDotSet) :
               Points(run) >= 2 \/ Points(run) = Len(run))
    => tokens = <<>> /\ result = Null

\* C7, as claimed: a call of a whitelisted function other than min and max
\* with two number arguments, and a call of any whitelisted function with no
\* argument, returns null.
C7_ArgumentCount ==
  called =>
    /\ ( /\ Len(tokens) = 6
         /\ tokens[1].type = "func" /\ tokens[1].name \notin {"min", "max"}
         /\ tokens[2].type = "lparen" /\ IsNumberAt(tokens, 3)
         /\ tokens[4].type = "comma" /\ IsNumberAt(tokens, 5)
         /\ tokens[6].type = "rparen"
         => result = Null )
    /\ ( /\ Len(tokens) = 3
         /\ tokens[1].type = "func"
         /\ tokens[2].type = "lparen"
         /\ tokens[3].type = "rparen"
         => result = Null )

\* C8: a ** b ** c is a ** (b ** c), and ** binds tighter than * / %:
\* a o b ** c is a o (b ** c) and a ** b o c is (a ** b) o c for o one of
\* * / %.  The result is that value, or null when it is undefined or out of
\* range.
C8_PowerRightAssociative ==
  called /\ Len(tokens) = 5
         /\ IsNumberAt(tokens, 1) /\ IsNumberAt(tokens, 3) /\ IsNumberAt(tokens, 5)
    =>
    /\ IsOpTok(tokens, 2, {"**"}) /\ IsOpTok(tokens, 4, {"**"})
         => result = Shown(MathPow(tokens[1].value,
                                   MathPow(tokens[3].value, tokens[5].value)))
    /\ IsOpTok(tokens, 2, MulOps) /\ IsOpTok(tokens, 4, {"**"})
         => result = Shown(Apply(tokens[2].value, tokens[1].value,
                                 MathPow(tokens[3].value, tokens[5].value)))
    /\ IsOpTok(tokens, 2, {"**"}) /\ IsOpTok(tokens, 4, MulOps)
         => result = Shown(Apply(tokens[4].value,
                                 MathPow(tokens[1].value, tokens[3].value),
                                 tokens[5].value))

\* C8, the case: 2**1**2 has been evaluated to 2, the value of 2**(1**2),
\* where (2**1)**2 is 4.
C8_Witness ==
  /\ called
  /\ input = <<"2", "*", "*", "1", "*", "*", "2">>
  /\ result = Num(2)

\* The number of sign tokens in a row from token i on.
RECURSIVE SignRun(_, _)
SignRun(t, i) == IF IsOpTok(t, i, AddOps) THEN 1 + SignRun(t, i + 1) ELSE 0

\* v behind the k sign tokens from token i on: negated when an odd number
\* of them is '-'.
MinusCount(t, i, k) == Cardinality({j \in i .. i + k - 1 : t[j].value = "-"})

Signed(t, i, k, v) == IF MinusCount(t, i, k) % 2 = 1 THEN JsNeg(v) ELSE v

\* C9: a chain of unary signs in front of a number negates it exactly when
\* the chain has an odd number of '-'; in signs a ** signs b the signs in
\* front of a apply to the base before the power is taken and the exponent
\* is the signed b.  The result is that value, or null when it is undefined
\* or out of range.
C9_UnarySigns ==
  called =>
    LET k == SignRun(tokens, 1)
        m == SignRun(tokens, k + 3)
    IN /\ ( /\ k >= 1
            /\ Len(tokens) = k + 1
            /\ IsNumberAt(tokens, k + 1)
            => result = Signed(tokens, 1, k, tokens[k + 1].value) )
       /\ ( /\ k + m >= 1
            /\ IsNumberAt(tokens, k + 1)
            /\ IsOpTok(tokens, k + 2, {"**"})
            /\ Len(tokens) = k + m + 3
            /\ IsNumberAt(tokens, k + m + 3)
            => result =
                 Shown(MathPow(Signed(tokens, 1, k, tokens[k + 1].value),
                               Signed(tokens, k + 3, m, tokens[k + m + 3].value))) )

\* C9, the case: -2**2 has been evaluated to 4.
C9_Witness ==
  /\ called
  /\ input = <<"-", "2", "*", "*", "2">>
  /\ result = Num(4)

\* C10: after any sequence of calls, the result of the latest call is the
\* result of a first call (on the module as loaded) with the same input; so
\* two calls with the same input, consecutive or not, return the same.
C10_ResultDependsOnInputOnly ==
  called => result = Evaluate(input, <<>>, 0).result

\* C10, the case: a call that found the cursor past the end of the token
\* list, left by a parse that failed on a missing operand, has returned a
\* number.
C10_Witness ==
  /\ called
  /\ entry.pos > Len(entry.tokens)
  /\ entry.tokens # <<>>
  /\ result # Null

\* The input with every `^` replaced by `**`.
RECURSIVE CaretsAsPowers(_)
CaretsAsPowers(s) ==
  IF Len(s) = 0 THEN <<>>
  ELSE (IF Head(s) = "^" THEN <<"*", "*">> ELSE <<Head(s)>>)
         \o CaretsAsPowers(Tail(s))

\* C11: a call on s returns what a call on s' returns, s' being s with
\* every whitespace character removed and every `^` replaced by `**`,
\* wherever the whitespace stands (between two digits, between two `*`).
C11_WhitespaceAndCaret ==
  called => result = Evaluate(CaretsAsPowers(Stripped(input)), <<>>, 0).result

\* C11, the case: two `*` with whitespace between them were read as `**`.
C11_Witness ==
  /\ called
  /\ input = <<"2", " ", "*", "\t", "*", " ", "2">>
  /\ result = Num(4)

\* The names the calculator knows: the functions and the constants.
ClaimedNames == FunctionNames \cup ConstantNames

\* C12, as claimed: looksLikeMathExpression is true exactly for the inputs
\* that, trimmed, have at least 2 characters, contain a digit, contain an
\* operator, a decimal pattern or one of the 15 function and constant names
\* (as a whole word, in any case), and start with a digit, a sign, an
\* opening parenthesis or one of the 15 names.
C12_HeuristicAsClaimed ==
  looked =>
    LET t == Trim(lookInput)
    IN looks =
         /\ Len(t) >= 2
         /\ \E i \in 1 .. Len(t) : t[i] \in DigitSet
         /\ \/ \E i \in 1 .. Len(t) : t[i] \in {"+", "-", "*", "/", "%", "^"}
            \/ HasDecimal(t)
            \/ HasWord(t, ClaimedNames)
         /\ \/ t[1] \in DigitSet \cup {"+", "-", "("}
            \/ StartsWithWord(t, ClaimedNames)

\* What evaluateMathExpression returns for the search text x.
Evaluated(x) == Evaluate(x, <<>>, 0).result

\* C13: the heuristic only gates the display, evaluation decides.  In every
\* state a selectable calculator item exists, and the default value is the
\* calculator item, only if evaluateMathExpression(search text) is a number;
\* handleCopyCalculatorResult has written to the clipboard only if it was;
\* when looksLikeMathExpression holds of the search text and evaluation
\* gives null, the only calculator item is the disabled one, and a call of
\* handleCopyCalculatorResult writes nothing and leaves the search text.
C13_EvaluationIsAuthoritative ==
  /\ (\E item \in CalculatorItems : ~item.disabled)
       => Evaluated(commandSearch) \notin {Null, RangeError}
  /\ CommandShown /\ defaultValue = "calc-result"
       => Evaluated(commandSearch) \notin {Null, RangeError}
  /\ copy.ran /\ copy.wrote
       => /\ Evaluated(copy.search) \notin {Null, RangeError}
          /\ clipboard = ResultText(Evaluated(copy.search))
  /\ CommandShown /\ LooksTrimmed(Trim(commandSearch))
         /\ Evaluated(commandSearch) = Null
       => CalculatorItems = {[value |-> "calc-invalid", disabled |-> TRUE]}
  /\ copy.ran /\ Evaluated(copy.search) = Null
       => ~copy.wrote /\ commandSearch = copy.search

\* C13, the case: after a result has been copied, the search text `1+`
\* looks like an expression and evaluates to null: the disabled item is
\* shown, and a call of the handler left the clipboard and the text.
C13_Witness ==
  /\ CommandShown
  /\ commandSearch = <<"1", "+">>
  /\ looks
  /\ CalculatorItems = {[value |-> "calc-invalid", disabled |-> TRUE]}
  /\ copy.ran
  /\ ~copy.wrote
  /\ clipboard = Num(2)

\* C14: the clipboard history is a bounded buffer: whatever poll-driven
\* additions, pinClipboardEntry and deleteClipboardEntry calls have run, the
\* value in storage holds at most MAX_ENTRIES entries, and so does what
\* getClipboardHistory returned.
C14_HistoryBounded ==
  /\ Len(stored) <= MAX_ENTRIES
  /\ Len(history) <= MAX_ENTRIES

\* A full store from which an addition has pushed the last entry out, and a
\* history read from it.
C14_Witness ==
  /\ cut > 0
  /\ Len(stored) = MAX_ENTRIES
  /\ Len(history) = MAX_ENTRIES
  /\ nextId > MAX_ENTRIES + 1

\* C20: polling happens only when the launcher window is not focused: a poll
\* tick that starts while the window is visible and focused reads neither
\* clipboard text nor image, changes neither lastTextHash nor lastImageHash
\* and adds no entry.
C20_FocusedTickIsIdle ==
  /\ ~focusedTick.read
  /\ ~focusedTick.hashes
  /\ ~focusedTick.added

\* The pollClipboard with the focus check keeps to it.
C20_GuardedTickIsIdle == guarded => C20_FocusedTickIsIdle

\* C15: the session tracks the live shell: while the shell the latest start()
\* spawned is running and stop() has not been called, isRunning() is true and
\* write and resize reach that shell; and once stop() has been called no
\* shell is left running.  The exit event of a replaced shell changes none
\* of this.
C15_TracksLiveShell ==
  /\ live # NoShell /\ shells[live] = "running" =>
       /\ isRunning
       /\ ptyProcess = live
       /\ reached.op # "none" => reached.shell = live
  /\ live = NoShell => \A s \in ShellIds : shells[s] # "running"

\* C16: the terminal exit protocol: Escape pressed in terminal mode leads to
\* exit-confirmation mode; Escape pressed in exit-confirmation mode leads to
\* search mode with the search text and the initial terminal command
\* cleared, and any other key pressed there leads back to terminal mode.
C16_ExitProtocol ==
  /\ pressed.key = "Escape" /\ pressed.from = "terminal" =>
       mode = "exit-confirmation"
  /\ pressed.key = "Escape" /\ pressed.from = "exit-confirmation" =>
       /\ mode = "search"
       /\ commandSearch = <<>>
       /\ initialTerminalCommand = <<>>
  /\ pressed.key \notin {"Escape", "none"} /\ pressed.from = "exit-confirmation" =>
       mode = "terminal"

\* No key press and no click leads out of terminal mode.
C16_TerminalModeIsFinal ==
  [][mode = "terminal" => mode' = "terminal"]_vars

\* The last n elements of s, all of s when it has fewer.
Last(s, n) == IF Len(s) > n THEN SubSeq(s, Len(s) - n + 1, Len(s)) ELSE s

\* C18: the terminal buffer keeps only the last lines: lines never holds
\* more than the limit, it holds the lines appended since the latest
\* startTerminal, the most recent ones when more than the limit have arrived,
\* in the order of arrival, and their ids increase strictly.
C18_BufferKeepsLastLines ==
  /\ Len(lines) <= MaxLines
  /\ lines = Last(appended, MaxLines)
  /\ \A i \in 1 .. Len(lines) - 1 : lines[i].id < lines[i + 1].id

\* More lines than the limit have arrived since startTerminal, in events
\* that each went through two listeners.
C18_Witness ==
  /\ Len(appended) > MaxLines
  /\ Len(lines) = MaxLines
  /\ lines[1].id > 0
  /\ lastOutput.seen

\* The line feeds of s.
LineFeeds(s) == Cardinality({i \in 1 .. Len(s) : s[i] = "\n"})

\* s is non-blank texts with line feeds between them.
LinesOfText(s) ==
  \A i \in 1 .. Len(Split(s, "\n")) : Len(Trim(Split(s, "\n")[i])) > 0

\* C19: handleOutput splits the data by line feeds: data with k line feeds
\* between non-empty texts makes k + 1 lines, the texts between the line
\* feeds.
C19_OneLinePerLineFeed ==
  lastOutput.seen /\ LinesOfText(RemoveAnsi(lastOutput.data)) =>
    /\ Len(lastOutput.made) = LineFeeds(lastOutput.data) + 1
    /\ \A i \in 1 .. Len(lastOutput.made) :
         lastOutput.made[i].content = Split(RemoveAnsi(lastOutput.data), "\n")[i]

\* What the code does instead: all data of one event makes at most one line.
C19_OneLinePerEvent == Len(lastOutput.made) <= 1

\* C17: the validation never reports a stale result: whenever isValidCommand
\* is true the first token of the current input is in the command cache and
\* the answer that set it was the answer for the current input; and
\* validateShellCommand is only called for inputs whose first token is in
\* the cache.
C17_NeverStale ==
  /\ isValidCommand =>
       /\ isKnownCommand(commandSearch, commandCache)
       /\ validatedFor = <<commandSearch>>
  /\ \A cmd \in requested : isKnownCommand(cmd, MainCache)

\* The part of it that holds: only inputs that hit the cache are sent.
C17_OnlyCacheHitsRequested ==
  \A cmd \in requested : isKnownCommand(cmd, MainCache)

\* C21: at most one polling timer is ever active, and once
\* stopClipboardManager has returned no timer set by an initClipboardManager
\* call made before it is left, nor does one invoke pollClipboard.
C21_OneTimer ==
  /\ Cardinality(timers) <= 1
  /\ \A t \in timers : t > beforeStop
  /\ firedBy # NoTimer => firedBy > beforeStop

\* The part of it that holds: a call made while pollInterval is set starts
\* no timer, and pollInterval is one of the timers that are set.
C21_InitAfterInitIsSkipped ==
  /\ pollInterval # NoTimer => pollInterval \in timers
  /\ \A c \in awaiting : c \notin timers

\* The activation p completes the setEntries of its addEntry in this step.
AddWrites(p) ==
  /\ procs[p].kind = "poll"
  /\ procs[p].pc = "addWrite"
  /\ procs'[p] # procs[p]

\* The list the activation p hands to setEntries is longer than the limit.
Overfull(p) == Len(procs[p].entries) > MAX_ENTRIES

\* The entry at the end of the list p hands to setEntries: the one the slice
\* drops when the list is one too long.
DroppedBy(p) == procs[p].entries[Len(procs[p].entries)]

\* C22: the order of eviction: when an addition makes the list one longer
\* than the limit, the entry dropped is unpinned and no unpinned entry that
\* is kept is older than it.
C22_OldestUnpinnedEvicted ==
  [][\A p \in ProcIds :
       AddWrites(p) /\ Overfull(p) =>
         /\ ~DroppedBy(p).pinned
         /\ \A i \in 1 .. Len(stored') :
              ~stored'[i].pinned =>
                stored'[i].timestamp > DroppedBy(p).timestamp]_vars

\* C23: a pinned entry is never evicted by new content: an addition leaves
\* every stored entry that is pinned in the store, still pinned.
C23_PinnedSurvivesAdditions ==
  [][\A p \in ProcIds :
       AddWrites(p) =>
         \A i \in 1 .. Len(stored) :
           stored[i].pinned =>
             \E j \in 1 .. Len(stored') :
               stored'[j].id = stored[i].id /\ stored'[j].pinned]_vars

\* The part of C23 that holds: an addition that finds fewer pinned entries
\* than the limit keeps them all (while no other activation is in flight).
C23_FewPinnedSurvive ==
  [][\A p \in ProcIds :
       AddWrites(p) /\ Len(PinnedOf(stored)) < MAX_ENTRIES /\ Len(procs) = 1 =>
         \A i \in 1 .. Len(stored) :
           stored[i].pinned =>
             \E j \in 1 .. Len(stored') :
               stored'[j].id = stored[i].id /\ stored'[j].pinned]_vars

\* C24: no duplicates in the stored history: no two unpinned text entries
\* have the same trimmed text, and no text entry is empty or blank.
C24_NoDuplicateTexts ==
  /\ \A i, j \in 1 .. Len(stored) :
       /\ i < j
       /\ stored[i].type = "text" /\ stored[j].type = "text"
       /\ ~stored[i].pinned /\ ~stored[j].pinned
       => Trim(stored[i].text) # Trim(stored[j].text)
  /\ \A i \in 1 .. Len(stored) :
       stored[i].type = "text" => Len(Trim(stored[i].text)) > 0

\* The part of C24 that holds: no text entry is empty or blank.
C24_NoBlankTexts ==
  \A i \in 1 .. Len(stored) :
    stored[i].type = "text" => Len(Trim(stored[i].text)) > 0

\* C25: operations on the store are not undone by concurrent ones: the
\* store, which is what getClipboardHistory returns, holds no entry whose
\* deleteClipboardEntry has resolved, and an entry whose pinClipboardEntry
\* has resolved has the flag of that call until the next pin or delete call
\* for it.
C25_ResolvedOperationsStand ==
  \A i \in 1 .. Len(stored) :
    /\ stored[i].id \notin deletedIds
    /\ pinnedAs[stored[i].id] = "pinned" => stored[i].pinned
    /\ pinnedAs[stored[i].id] = "unpinned" => ~stored[i].pinned

\* The write of a poll tick's addEntry alone does not undo what has
\* resolved.
C25_AddEntryKeepsResolved ==
  [][(C25_ResolvedOperationsStand /\ \E p \in ProcIds : AddWrites(p))
       => C25_ResolvedOperationsStand']_vars

\* setHotkey resolves only after the hotkey has been stored.
C26_ResolvedMeansStored ==
  promise = "resolved" =>
    /\ hotkeyCall.pc = "done"
    /\ storedHotkeys[hotkeyCall.type] = hotkeyCall.hotkey

\* When the read succeeded and the hotkey has been stored, the bindings of
\* the other types are those stored before the call.
C26_OthersPreserved ==
  (promise = "resolved" /\ ~hotkeyCall.readFailed) =>
    \A t \in HotkeyTypes \ {hotkeyCall.type} :
      storedHotkeys[t] = hotkeysBefore[t]

\* When the read of the stored hotkeys failed, no storage.set is issued and
\* the stored bindings are those stored before the call.
C26_ReadErrorWritesNothing ==
  hotkeyCall.readFailed =>
    /\ ~hotkeyCall.setIssued
    /\ storedHotkeys = hotkeysBefore

\* C26: setHotkey(type, hotkey) resolves only after the hotkey has been
\* stored; when reading the stored hotkeys fails it rejects without writing,
\* so that no storage.set is issued and the stored bindings stay as they
\* were; on success the bindings of the other types are preserved.
C26_SetHotkey ==
  /\ C26_ResolvedMeansStored
  /\ C26_OthersPreserved
  /\ C26_ReadErrorWritesNothing

\* When the read of the stored hotkeys failed, the stored bindings stay as
\* they were before the call.
C26_ReadErrorKeepsBindings ==
  hotkeyCall.readFailed => storedHotkeys = hotkeysBefore

\* The latest call went as far as parseExpr(): its input was not blank and
\* tokenize returned tokens.
ParserRan == called /\ Len(Trim(input)) > 0 /\ Len(tokens) > 0

\* The latest call returned a number.
Succeeded == called /\ result # Null /\ result # RangeError

\* C27 as stated: the cursor never exceeds the number of tokens
\* (0 <= pos <= tokens.length in every reachable state), and after a
\* successful evaluation it equals the token count.
C27_CursorWithinTokens ==
  /\ 0 <= pos
  /\ pos <= Len(tokens)
  /\ Succeeded => pos = Len(tokens)

\* C27, amended: the cursor starts at 0 and is moved by consume only, one
\* token at a time, so that after a call that parsed it is at most one past
\* the number of tokens; it is one past only when a consume at the end of
\* the list found no token, and the call then returned null; after a
\* successful evaluation every token has been consumed and the cursor
\* equals the token count; a call that returns before parsing leaves the
\* cursor where it found it.
C27_CursorDiscipline ==
  called =>
    /\ 0 <= pos
    /\ ParserRan => pos <= Len(tokens) + 1
    /\ (ParserRan /\ pos > Len(tokens)) => result = Null
    /\ Succeeded => (ParserRan /\ pos = Len(tokens))
    /\ ~ParserRan => pos = entry.pos

\* C27, the case: a call on three tokens or more has returned a number,
\* having found the cursor of an earlier call that failed at the end of its
\* token list.
C27_Witness ==
  /\ Succeeded
  /\ Len(tokens) >= 3
  /\ pos = Len(tokens)
  /\ entry.pos = Len(entry.tokens) + 1

\* A call that parsed has left the cursor one past the token list.
C27_PastTheEnd == ParserRan /\ pos = Len(tokens) + 1

=============================================================================
